---- MODULE Spec2Model ----
(***************************************************************************)
(* Identity-verification pipeline of backend/utils/verification.js:        *)
(* embedding extraction, cosine similarity, document hashing, OCR          *)
(* extraction and cross-validation, liveness heuristics, and the two       *)
(* orchestrating workflows verifyBorrower and signupVerification.          *)
(*                                                                         *)
(* Strings are sequences of one-character strings.  Image buffers are      *)
(* byte sequences in a small container layout that stands for what the     *)
(* sharp / Tesseract libraries read out of real image bytes.               *)
(***************************************************************************)
EXTENDS Integers, Sequences, FiniteSets, TLC

(***************************************************************************)
(* Bounds of the model.                                                    *)
(***************************************************************************)
\* length of an embedding vector in the model (the code produces 128)
EmbDim == 2
\* number of greyscale pixels of the resized frame (the code resizes to 64x64)
PixLen == 4
\* largest pixel value of the model (the code reads bytes, 0..255)
PixMax == 2
\* longest OCR text, in tokens, drawn for the cross-validation functions
MaxTokens == 3
\* largest loan amount and largest repayment drawn for a LoanFSM
MaxAmount == 3

(***************************************************************************)
(* Program constants.                                                      *)
(***************************************************************************)
AadhaarDigits == 12
MinOcrLength == 10
MinResolution == 200
MinVariance == 10
MinNameWords == 2
MaxNameWords == 4
OcrExcerptLen == 100
DefaultThresholdPct == 75
OnboardingThresholdPct == 60
LoginThresholdPct == 65
\* the window of the duplicate-payment query, in minutes (60000 ms)
DuplicateWindow == 1

(***************************************************************************)
(* Characters and strings.                                                 *)
(***************************************************************************)
NULL == <<"<null>">>

Digits == {"0", "1", "2", "3", "4", "5", "6", "7", "8", "9"}
Whitespace == {" ", "\n", "\t"}
UpperCase == <<"A","B","C","D","E","F","G","H","I","J","K","L","M",
               "N","O","P","Q","R","S","T","U","V","W","X","Y","Z">>
LowerCase == <<"a","b","c","d","e","f","g","h","i","j","k","l","m",
               "n","o","p","q","r","s","t","u","v","w","x","y","z">>

IsDigit(c) == c \in Digits
IsSpace(c) == c \in Whitespace
IsUpper(c) == \E i \in 1..Len(UpperCase) : UpperCase[i] = c

\* String.prototype.toLowerCase
ToLowerChar(c) ==
    IF IsUpper(c)
    THEN LowerCase[CHOOSE i \in 1..Len(UpperCase) : UpperCase[i] = c]
    ELSE c
ToLowerCase(s) == [i \in 1..Len(s) |-> ToLowerChar(s[i])]

\* String.prototype.includes
Includes(hay, needle) ==
    \E i \in 0..(Len(hay) - Len(needle)) :
        SubSeq(hay, i + 1, i + Len(needle)) = needle

\* text.replace(/\s+/g, '')
StripSpaces(s) == SelectSeq(s, LAMBDA c : ~IsSpace(c))

\* String.prototype.trim
RECURSIVE TrimLeft(_)
TrimLeft(s) == IF s # <<>> /\ IsSpace(Head(s)) THEN TrimLeft(Tail(s)) ELSE s
RECURSIVE TrimRight(_)
TrimRight(s) ==
    IF s # <<>> /\ IsSpace(s[Len(s)]) THEN TrimRight(SubSeq(s, 1, Len(s) - 1)) ELSE s
Trim(s) == TrimRight(TrimLeft(s))

\* text.substring(0, n)
Substring0(s, n) == SubSeq(s, 1, IF Len(s) < n THEN Len(s) ELSE n)

\* ocrText.split('\n')
RECURSIVE SplitLines(_)
SplitLines(s) ==
    IF \A i \in 1..Len(s) : s[i] # "\n"
    THEN <<s>>
    ELSE LET k == CHOOSE i \in 1..Len(s) :
                      s[i] = "\n" /\ \A j \in 1..(i - 1) : s[j] # "\n"
         IN  <<SubSeq(s, 1, k - 1)>> \o SplitLines(SubSeq(s, k + 1, Len(s)))

\* line.split(/\s+/).length, for a line that is trimmed and not empty
WordCount(line) ==
    Cardinality({i \in 1..Len(line) :
                    ~IsSpace(line[i]) /\ (i = 1 \/ IsSpace(line[i - 1]))})

\* index of the first match of /\d{12}/ in s, 0 when there is none
FirstDigitRun(s, n) ==
    LET starts == {i \in 1..(Len(s) - n + 1) :
                      \A j \in i..(i + n - 1) : IsDigit(s[j])}
    IN  IF starts = {} THEN 0
        ELSE CHOOSE i \in starts : \A k \in starts : i <= k

(***************************************************************************)
(* OCR validation and field extraction.                                    *)
(***************************************************************************)
\* a regular expression that is a sequence of character classes matches s
\* at some position: "U" is [A-Z], "D" is \d
ClassMatch(c, cls) == IF cls = "D" THEN IsDigit(c) ELSE IsUpper(c)
PatternTest(s, pat) ==
    \E i \in 0..(Len(s) - Len(pat)) :
        \A j \in 1..Len(pat) : ClassMatch(s[i + j], pat[j])

PanPattern == <<"U","U","U","U","U","D","D","D","D","U">>
VoterPattern == <<"U","U","U","D","D","D","D","D","D","D">>

\* a format check that tests the text as read, spaces included
validateDocumentUnstripped(text, docType) ==
    CASE docType = "aadhar" -> FirstDigitRun(text, AadhaarDigits) # 0
      [] docType = "pan"    -> PatternTest(text, PanPattern)
      [] docType = "voter"  -> PatternTest(text, VoterPattern)
      [] OTHER              -> FALSE

validateDocument(text, docType) ==
    LET cleanText == StripSpaces(text)
    IN  CASE docType = "aadhar" -> FirstDigitRun(cleanText, AadhaarDigits) # 0
          [] docType = "pan"    -> PatternTest(text, PanPattern)
          [] docType = "voter"  -> PatternTest(text, VoterPattern)
          [] OTHER              -> FALSE

extractAadhaarNumber(ocrText) ==
    IF ocrText = <<>> THEN NULL
    ELSE LET cleanText == StripSpaces(ocrText)
             at == FirstDigitRun(cleanText, AadhaarDigits)
         IN  IF at # 0 THEN SubSeq(cleanText, at, at + AadhaarDigits - 1) ELSE NULL

skipKeywords ==
    { <<"g","o","v","e","r","n","m","e","n","t">>,
      <<"i","n","d","i","a">>,
      <<"a","a","d","h","a","a","r">>,
      <<"a","a","d","h","a","r">>,
      <<"u","i","d">>,
      <<"u","i","d","a","i">>,
      <<"d","o","b">>,
      <<"b","i","r","t","h">>,
      <<"m","a","l","e">>,
      <<"f","e","m","a","l","e">>,
      <<"a","d","d","r","e","s","s">>,
      <<"v","i","d">>,
      <<"e","n","r","o","l","l","m","e","n","t">> }

\* the test applied to each line of extractNameFromOCR
LooksLikeName(line) ==
    LET hasNumbers == \E i \in 1..Len(line) : IsDigit(line[i])
        isKeyword == \E kw \in skipKeywords : Includes(ToLowerCase(line), kw)
    IN  /\ ~hasNumbers
        /\ ~isKeyword
        /\ WordCount(line) >= MinNameWords
        /\ WordCount(line) <= MaxNameWords

extractNameFromOCR(ocrText) ==
    IF ocrText = <<>> THEN NULL
    ELSE LET split == SplitLines(ocrText)
             trimmed == [i \in 1..Len(split) |-> Trim(split[i])]
             lines == SelectSeq(trimmed, LAMBDA l : Len(l) > 0)
             hits == {i \in 1..Len(lines) : LooksLikeName(lines[i])}
         IN  IF hits = {} THEN NULL
             ELSE lines[CHOOSE i \in hits : \A k \in hits : i <= k]

\* a final test of verifyAadhaarDetails that demands both matches outright
CrossCheckStrict(extractedAadhaar, aadhaarMatch, extractedName, nameMatch) ==
    aadhaarMatch /\ nameMatch

\* the final test of verifyAadhaarDetails: a field that was not extracted passes
CrossCheck(extractedAadhaar, aadhaarMatch, extractedName, nameMatch) ==
    /\ (extractedAadhaar = NULL \/ aadhaarMatch)
    /\ (extractedName = NULL \/ nameMatch)

\* the id comparison of verifyAadhaarDetails, without whitespace stripping
IdEqualsRaw(extractedAadhaar, enteredAadhaar) ==
    extractedAadhaar = enteredAadhaar

IdEquals(extractedAadhaar, enteredAadhaar) ==
    extractedAadhaar = StripSpaces(enteredAadhaar)

verifyAadhaarDetails(ocrText, enteredName, enteredAadhaar) ==
    LET result == [nameMatch |-> FALSE, aadhaarMatch |-> FALSE,
                   extractedName |-> NULL, extractedAadhaar |-> NULL,
                   verified |-> FALSE]
    IN  IF ocrText = <<>> \/ Len(ocrText) < MinOcrLength
        THEN [result EXCEPT !.verified = TRUE]
        ELSE LET extractedAadhaar == extractAadhaarNumber(ocrText)
                 aadhaarMatch ==
                     IF extractedAadhaar # NULL
                     THEN IdEquals(extractedAadhaar, enteredAadhaar)
                     ELSE FALSE
                 extractedName == extractNameFromOCR(ocrText)
                 enteredNameLower == ToLowerCase(enteredName)
                 extractedNameLower == ToLowerCase(extractedName)
                 nameMatch ==
                     IF extractedName # NULL
                     THEN \/ Includes(enteredNameLower, extractedNameLower)
                          \/ Includes(extractedNameLower, enteredNameLower)
                     ELSE FALSE
             IN  [nameMatch |-> nameMatch, aadhaarMatch |-> aadhaarMatch,
                  extractedName |-> extractedName,
                  extractedAadhaar |-> extractedAadhaar,
                  verified |-> CrossCheck(extractedAadhaar, aadhaarMatch,
                                          extractedName, nameMatch)]

(***************************************************************************)
(* Image buffers.  What sharp decodes from a buffer is read from a header: *)
(* <<magic, width/10, height/10, channel std, frame pattern, text index>>. *)
(* A buffer of any other shape is a wholly undecodable byte stream.        *)
(***************************************************************************)
Decodable(buf) == Len(buf) = 6 /\ buf[1] = 137

\* sharp(imageBuffer).metadata()
Metadata(buf) == [width |-> buf[2] * 10, height |-> buf[3] * 10]

\* sharp(imageBuffer).stats(): the per-channel standard deviations
Stats(buf) == [channels |-> <<[std |-> buf[4]], [std |-> buf[4]], [std |-> buf[4]]>>]

\* sharp(imageBuffer).resize(64, 64).greyscale().raw(): the pixel buffer
RawGreyPixels(buf) ==
    [i \in 1..PixLen |->
        CASE buf[5] = 1 -> PixMax
          [] buf[5] = 2 -> IF 2 * i <= PixLen THEN PixMax ELSE 0
          [] buf[5] = 3 -> IF i % 2 = 1 THEN 0 ELSE PixMax
          [] OTHER      -> IF i = PixLen - 1 THEN 0 ELSE PixMax]

RECURSIVE SumSeq(_)
SumSeq(s) == IF s = <<>> THEN 0 ELSE Head(s) + SumSeq(Tail(s))

(***************************************************************************)
(* Embedding extraction.  An embedding value v of the code is held as the  *)
(* integer v * sampleSize * PixMax (cosine similarity does not depend on   *)
(* the common factor).                                                     *)
(***************************************************************************)
\* generatePerceptualHash for a decodable buffer: the chunk means, normalised
PerceptualHashOf(pixels) ==
    LET sampleSize == Len(pixels) \div EmbDim
    IN  [i \in 1..EmbDim |->
            LET startIdx == (i - 1) * sampleSize
                chunk == [j \in 1..sampleSize |->
                             IF startIdx + j <= Len(pixels) THEN pixels[startIdx + j] ELSE 0]
            IN  2 * SumSeq(chunk) - sampleSize * PixMax]

\* an extractor that forgets to fail on bytes that do not decode
generatePerceptualHashLenient(buf) ==
    [threw |-> FALSE, value |-> [i \in 1..EmbDim |-> 1]]

generatePerceptualHash(buf) ==
    IF ~Decodable(buf)
    THEN [threw |-> TRUE, value |-> NULL]
    ELSE [threw |-> FALSE, value |-> PerceptualHashOf(RawGreyPixels(buf))]

\* what running the freshly built, randomly initialised network gives: an
\* embedding, or an exception of the tensor library
CnnEmbeddings ==
    { [i \in 1..EmbDim |-> 1],
      [i \in 1..EmbDim |-> IF i = 1 THEN 1 ELSE 0] }
CnnOutcomes ==
    {[threw |-> FALSE, value |-> e] : e \in CnnEmbeddings}
        \cup {[threw |-> TRUE, value |-> NULL]}

extractCNNEmbedding(buf, cnn) ==
    IF ~Decodable(buf) THEN [threw |-> TRUE, value |-> NULL] ELSE cnn

\* imageToEmbedding whose catch block rethrows instead of falling back
imageToEmbeddingNoFallback(buf, tf, cnn) ==
    IF tf THEN extractCNNEmbedding(buf, cnn) ELSE generatePerceptualHash(buf)

imageToEmbedding(buf, tf, cnn) ==
    LET primary == IF tf THEN extractCNNEmbedding(buf, cnn)
                         ELSE generatePerceptualHash(buf)
    IN  IF ~primary.threw THEN primary ELSE generatePerceptualHash(buf)

(***************************************************************************)
(* Cosine similarity.  A score dot / sqrt(nn) is held as [dot, nn]; it is  *)
(* NaN when nn = 0.                                                        *)
(***************************************************************************)
Dot(a, b) == SumSeq([i \in 1..Len(a) |-> a[i] * b[i]])

\* a scorer that divides by the square of the first vector's norm
cosineSimilarityOneNorm(a, b) ==
    IF a = NULL \/ b = NULL \/ Len(a) # Len(b)
    THEN [threw |-> TRUE, value |-> NULL]
    ELSE [threw |-> FALSE,
          value |-> [dot |-> Dot(a, b), nn |-> Dot(a, a) * Dot(a, a)]]

cosineSimilarity(a, b) ==
    IF a = NULL \/ b = NULL \/ Len(a) # Len(b)
    THEN [threw |-> TRUE, value |-> NULL]
    ELSE [threw |-> FALSE,
          value |-> [dot |-> Dot(a, b), nn |-> Dot(a, a) * Dot(b, b)]]

IsNaN(score) == score.nn = 0

\* score >= pct / 100, as the code's floating-point comparison decides it
ScoreAtLeast(score, pct) ==
    /\ ~IsNaN(score)
    /\ score.dot >= 0
    /\ score.dot * score.dot * 10000 >= pct * pct * score.nn

(***************************************************************************)
(* Document hashing.                                                       *)
(***************************************************************************)
Base64Alphabet ==
    <<"A","B","C","D","E","F","G","H","I","J","K","L","M","N","O","P",
      "Q","R","S","T","U","V","W","X","Y","Z","a","b","c","d","e","f",
      "g","h","i","j","k","l","m","n","o","p","q","r","s","t","u","v",
      "w","x","y","z","0","1","2","3","4","5","6","7","8","9","+","/">>

RECURSIVE Base64(_)
Base64(bytes) ==
    LET ch(k) == Base64Alphabet[k + 1]
        n == Len(bytes)
    IN  IF n = 0 THEN <<>>
        ELSE IF n = 1
        THEN <<ch(bytes[1] \div 4), ch((bytes[1] % 4) * 16), "=", "=">>
        ELSE IF n = 2
        THEN <<ch(bytes[1] \div 4),
               ch((bytes[1] % 4) * 16 + bytes[2] \div 16),
               ch((bytes[2] % 16) * 4), "=">>
        ELSE <<ch(bytes[1] \div 4),
               ch((bytes[1] % 4) * 16 + bytes[2] \div 16),
               ch((bytes[2] % 16) * 4 + bytes[3] \div 64),
               ch(bytes[3] % 64)>> \o Base64(SubSeq(bytes, 4, n))

\* crypto.createHash('sha256').update(msg).digest('hex'): collision-free, and
\* of one fixed length
Sha256Hex(msg) == <<[sha256 |-> msg]>>

\* crypto.randomBytes(16).toString('hex')
Salts == { <<"a","1">>, <<"b","2">> }

\* a hash that draws a salt whether or not one is supplied
hashDocumentAlwaysRandom(imageBuffer, txnId, salt, random) ==
    LET firstHash == Sha256Hex(Base64(imageBuffer) \o random)
        finalHash == Sha256Hex(firstHash \o txnId)
    IN  [finalHash |-> finalHash, salt |-> random]

\* a hash that leaves the transaction id out of the second digest
hashDocumentUnbound(imageBuffer, txnId, salt, random) ==
    LET used == IF salt = NULL \/ salt = <<>> THEN random ELSE salt
        firstHash == Sha256Hex(Base64(imageBuffer) \o used)
    IN  [finalHash |-> Sha256Hex(firstHash), salt |-> used]

hashDocument(imageBuffer, txnId, salt, random) ==
    LET used == IF salt = NULL \/ salt = <<>> THEN random ELSE salt
        firstHash == Sha256Hex(Base64(imageBuffer) \o used)
        finalHash == Sha256Hex(firstHash \o txnId)
    IN  [finalHash |-> finalHash, salt |-> used]

(***************************************************************************)
(* Liveness detection.  Confidence is held in hundredths.                  *)
(***************************************************************************)
\* the size check with the comparison turned round
ResolutionTooLowSwapped(metadata) ==
    metadata.width > MinResolution /\ metadata.height > MinResolution

ResolutionTooLow(metadata) ==
    metadata.width < MinResolution \/ metadata.height < MinResolution

\* a detector that looks at the detail before it looks at the size
detectLivenessDetailFirst(imageBuffer) ==
    IF ~Decodable(imageBuffer)
    THEN [isLive |-> TRUE, confidence |-> 50, reason |-> "Unable to verify"]
    ELSE LET metadata == Metadata(imageBuffer)
             stats == Stats(imageBuffer)
             stds == [i \in 1..Len(stats.channels) |-> stats.channels[i].std]
         IN  IF SumSeq(stds) < MinVariance * Len(stds)
             THEN [isLive |-> FALSE, confidence |-> 40, reason |-> "Insufficient detail"]
             ELSE IF ResolutionTooLow(metadata)
             THEN [isLive |-> FALSE, confidence |-> 30, reason |-> "Resolution too low"]
             ELSE IF 2 * metadata.width < metadata.height
                     \/ metadata.width > 2 * metadata.height
             THEN [isLive |-> FALSE, confidence |-> 50, reason |-> "Unusual aspect ratio"]
             ELSE [isLive |-> TRUE, confidence |-> 85, reason |-> "Checks passed"]

\* a detector whose catch block fails closed
detectLivenessFailClosed(imageBuffer) ==
    IF ~Decodable(imageBuffer)
    THEN [isLive |-> FALSE, confidence |-> 50, reason |-> "Unable to verify"]
    ELSE LET metadata == Metadata(imageBuffer)
             stats == Stats(imageBuffer)
             stds == [i \in 1..Len(stats.channels) |-> stats.channels[i].std]
         IN  IF ResolutionTooLow(metadata)
             THEN [isLive |-> FALSE, confidence |-> 30, reason |-> "Resolution too low"]
             ELSE IF SumSeq(stds) < MinVariance * Len(stds)
             THEN [isLive |-> FALSE, confidence |-> 40, reason |-> "Insufficient detail"]
             ELSE IF 2 * metadata.width < metadata.height
                     \/ metadata.width > 2 * metadata.height
             THEN [isLive |-> FALSE, confidence |-> 50, reason |-> "Unusual aspect ratio"]
             ELSE [isLive |-> TRUE, confidence |-> 85, reason |-> "Checks passed"]

detectLiveness(imageBuffer) ==
    IF ~Decodable(imageBuffer)
    THEN [isLive |-> TRUE, confidence |-> 50, reason |-> "Unable to verify"]
    ELSE LET metadata == Metadata(imageBuffer)
             stats == Stats(imageBuffer)
             stds == [i \in 1..Len(stats.channels) |-> stats.channels[i].std]
         IN  IF ResolutionTooLow(metadata)
             THEN [isLive |-> FALSE, confidence |-> 30, reason |-> "Resolution too low"]
             ELSE IF SumSeq(stds) < MinVariance * Len(stds)
             THEN [isLive |-> FALSE, confidence |-> 40, reason |-> "Insufficient detail"]
             ELSE IF 2 * metadata.width < metadata.height
                     \/ metadata.width > 2 * metadata.height
             THEN [isLive |-> FALSE, confidence |-> 50, reason |-> "Unusual aspect ratio"]
             ELSE [isLive |-> TRUE, confidence |-> 85, reason |-> "Checks passed"]

(***************************************************************************)
(* DigiLocker verification.                                                *)
(***************************************************************************)
\* /^\d{12}$/ on the number without its whitespace
IsTwelveDigits(clean) ==
    Len(clean) = AadhaarDigits /\ \A i \in 1..Len(clean) : IsDigit(clean[i])

simulateDigiLockerVerification(aadhaarNumber, name) ==
    LET cleanAadhaar == StripSpaces(aadhaarNumber)
    IN  IF ~IsTwelveDigits(cleanAadhaar)
        THEN [verified |-> FALSE, error |-> "Invalid Aadhaar number format"]
        ELSE [verified |-> TRUE, aadhaarNumber |-> cleanAadhaar, name |-> name,
              digilockerVerified |-> TRUE, simulatedMode |-> TRUE]

\* what the DigiLocker API answers: the list of issued documents (the request
\* fails, the list has no Aadhaar, or it has one) and the document itself
DigiLockerOutcomes ==
    [issued : {"fails", "noAadhaar", "found"}, doc : {"fails", "ok"}]

\* the details verifyAadhaarFromDigiLocker builds from a fetched document
DigiLockerDetails == [verified |-> TRUE, digilockerVerified |-> TRUE]

\* a verification that lets the DigiLocker errors out instead of falling back
verifyAadhaarDocumentNoFallback(aadhaarNumber, name, accessToken, docUri, isConfigured, api) ==
    IF ~isConfigured \/ accessToken = NULL
    THEN [threw |-> FALSE, value |-> simulateDigiLockerVerification(aadhaarNumber, name)]
    ELSE IF (docUri = NULL /\ api.issued # "found") \/ api.doc = "fails"
    THEN [threw |-> TRUE, value |-> NULL]
    ELSE [threw |-> FALSE, value |-> DigiLockerDetails]

verifyAadhaarDocument(aadhaarNumber, name, accessToken, docUri, isConfigured, api) ==
    IF ~isConfigured \/ accessToken = NULL
    THEN [threw |-> FALSE, value |-> simulateDigiLockerVerification(aadhaarNumber, name)]
    ELSE IF (docUri = NULL /\ api.issued # "found") \/ api.doc = "fails"
    THEN [threw |-> FALSE, value |-> simulateDigiLockerVerification(aadhaarNumber, name)]
    ELSE [threw |-> FALSE, value |-> DigiLockerDetails]

\* the multiplication table d and the permutation table p of the code
VerhoeffD ==
    << <<0, 1, 2, 3, 4, 5, 6, 7, 8, 9>>, <<1, 2, 3, 4, 0, 6, 7, 8, 9, 5>>,
       <<2, 3, 4, 0, 1, 7, 8, 9, 5, 6>>, <<3, 4, 0, 1, 2, 8, 9, 5, 6, 7>>,
       <<4, 0, 1, 2, 3, 9, 5, 6, 7, 8>>, <<5, 9, 8, 7, 6, 0, 4, 3, 2, 1>>,
       <<6, 5, 9, 8, 7, 1, 0, 4, 3, 2>>, <<7, 6, 5, 9, 8, 2, 1, 0, 4, 3>>,
       <<8, 7, 6, 5, 9, 3, 2, 1, 0, 4>>, <<9, 8, 7, 6, 5, 4, 3, 2, 1, 0>> >>
VerhoeffP ==
    << <<0, 1, 2, 3, 4, 5, 6, 7, 8, 9>>, <<1, 5, 7, 6, 2, 8, 3, 0, 9, 4>>,
       <<5, 8, 0, 3, 7, 9, 6, 1, 4, 2>>, <<8, 9, 1, 6, 0, 4, 3, 5, 2, 7>>,
       <<9, 4, 5, 3, 1, 2, 6, 8, 7, 0>>, <<4, 2, 8, 6, 5, 7, 3, 9, 0, 1>>,
       <<2, 7, 9, 3, 8, 0, 6, 4, 1, 5>>, <<7, 0, 4, 6, 9, 1, 3, 2, 5, 8>> >>

\* parseInt of one digit character
ParseDigit(ch) ==
    CHOOSE k \in 0..9 :
        <<"0", "1", "2", "3", "4", "5", "6", "7", "8", "9">>[k + 1] = ch

\* the loop of validateAadhaarNumber from index i of the reversed number on
RECURSIVE VerhoeffLoop(_, _, _)
VerhoeffLoop(reversedAadhaar, i, c) ==
    IF i >= Len(reversedAadhaar) THEN c
    ELSE VerhoeffLoop(reversedAadhaar, i + 1,
             VerhoeffD[c + 1][VerhoeffP[(i % 8) + 1][ParseDigit(reversedAadhaar[i + 1]) + 1] + 1])

validateAadhaarNumber(aadhaar) ==
    LET cleanAadhaar == StripSpaces(aadhaar)
        reversedAadhaar == [i \in 1..Len(cleanAadhaar) |->
                               cleanAadhaar[Len(cleanAadhaar) + 1 - i]]
    IN  IF ~IsTwelveDigits(cleanAadhaar) THEN FALSE
        ELSE VerhoeffLoop(reversedAadhaar, 0, 0) = 0

(***************************************************************************)
(* Inputs of the workflows.                                                *)
(***************************************************************************)
\* what Tesseract.recognize reads on a document, by the buffer's text index
DocTexts ==
    << <<>>,
       <<"6","4","7","7","7","4","5","0","9","9","4","4">>,
       <<"R","a","v","i"," ","K","u","m","a","r","\n","6","4","7","7"," ","7","4","5","0"," ","9","9","4","4">>,
       <<"D","O","B"," ","1">>,
       <<" ","\n">>,
       <<"S","i","t","a"," ","D","e","v","i","\n","1","2","3","4","5","6","7","8","9","0","1">> >>

RecognizedText(buf) == DocTexts[buf[6] + 1]

UndecodableBuffer == <<0>>
FaceImages ==
    {UndecodableBuffer} \cup
    {<<137, w, h, sd, f, 0>> : w \in {15, 20, 50}, h \in {15, 20, 50},
                               sd \in {5, 20}, f \in {1, 4}}
DocImages ==
    {UndecodableBuffer} \cup
    {<<137, 30, 20, 20, f, t>> : f \in {1, 3}, t \in 0..(Len(DocTexts) - 1)}

TxnIds == { <<"T","1">> }
Thresholds == {OnboardingThresholdPct, DefaultThresholdPct}
EnteredNames == { <<"R","a","v","i"," ","K","u","m","a","r">>, <<"S","i","t","a"," ","D","e","v","i">> }
EnteredAadhaars == { <<"6","4","7","7"," ","7","4","5","0"," ","9","9","4","4">>, <<"1","1","1","1","1","1","1","1","1","1","1","1">> }

(***************************************************************************)
(* State.                                                                  *)
(***************************************************************************)
VARIABLES
    tfAvailable,         \* module load: a TensorFlow backend could be required
    tesseractAvailable,  \* module load: tesseract.js could be required
    pc,                  \* the await at which the running workflow is suspended
    args,                \* the arguments of the running workflow
    loc,                 \* its local variables
    ocrTask,             \* progress of the performOCR promise
    timer,               \* the setTimeout of the OCR race
    race,                \* the Promise.race: "none", "pending", "timer" or "ocr"
    outcome,             \* "none", "pending", "returned" or "thrown"
    result,              \* the record the workflow resolved with
    probe,               \* input and output of a single function application
    users,               \* the User collection, by email / uniqueId
    otpStore,            \* the routes' in-memory otpStore object
    transactions,        \* the Transaction collection
    notifications,       \* the Notification collection, by notificationId
    req,                 \* the route handlers in flight, with their responses
    fsm                  \* a LoanFSM instance

vars == <<tfAvailable, tesseractAvailable, pc, args, loc, ocrTask, timer, race,
          outcome, result, probe, users, otpStore, transactions, notifications,
          req, fsm>>

\* the state around the verification module: collections, handlers, the loan
Application == <<users, otpStore, transactions, notifications, req, fsm>>

NoRequest == [route |-> "none"]
NoLoan == [state |-> "none"]
\* nothing around the verification module is in use
ApplicationIdle ==
    /\ users = <<>>
    /\ otpStore = <<>>
    /\ transactions = <<>>
    /\ notifications = <<>>
    /\ req = NoRequest
    /\ fsm = NoLoan

NoArgs == [mode |-> "none"]
NoResult == [none |-> TRUE]
NoProbe == [fn |-> "none"]
NoLocals ==
    [faceEmb |-> NULL, aadhaarEmb |-> NULL, score |-> [dot |-> 0, nn |-> 0],
     finalHash |-> NULL, salt |-> NULL, ocrText |-> <<>>, documentValid |-> TRUE,
     liveness |-> [isLive |-> TRUE, confidence |-> 0, reason |-> ""],
     ocrVerification |-> [verified |-> TRUE, nameMatch |-> FALSE, aadhaarMatch |-> FALSE],
     crossValidated |-> FALSE, livenessRan |-> FALSE]

Init ==
    /\ tfAvailable \in BOOLEAN
    /\ tesseractAvailable \in BOOLEAN
    /\ pc = "idle"
    /\ args = NoArgs
    /\ loc = NoLocals
    /\ ocrTask = "none"
    /\ timer = "none"
    /\ race = "none"
    /\ outcome = "none"
    /\ result = NoResult
    /\ probe = NoProbe
    /\ ApplicationIdle

(***************************************************************************)
(* The two workflows.  One action is one resumption of the async function: *)
(* the awaited promise settles and the body runs on to its next await.     *)
(***************************************************************************)
DecodeErrorMessage == "Input buffer contains unsupported image format"
SimilarityErrorMessage == "Invalid embeddings for similarity calculation"
MismatchMessage == "Uploaded Aadhaar details do not match entered information"
SuccessMessage == "Biometric data captured and verified successfully"

\* a catch block that lets the exception escape to the caller
CatchRethrow(message) == [outcome |-> "thrown", result |-> NoResult]

\* the outer catch block of verifyBorrower and of signupVerification
Catch(message) ==
    [outcome |-> "returned", result |-> [verified |-> FALSE, error |-> message]]

Return(record) == [outcome |-> "returned", result |-> record]

\* the final decision with the liveness verdict left out
FinalDecisionNoLiveness(score, threshold, liveness, documentValid) ==
    ScoreAtLeast(score, threshold) /\ documentValid

\* the final decision of verifyBorrower
FinalDecision(score, threshold, liveness, documentValid) ==
    ScoreAtLeast(score, threshold) /\ liveness.isLive /\ documentValid

\* the record verifyBorrower returns from its try block
BorrowerRecord(verified, l, a) ==
    [verified |-> verified, score |-> l.score, threshold |-> a.threshold,
     liveness |-> l.liveness, documentValid |-> l.documentValid,
     documentHash |-> l.finalHash, salt |-> l.salt, faceEmbedding |-> l.faceEmb,
     ocrText |-> Substring0(l.ocrText, OcrExcerptLen)]

\* reading a property of an object: undefined when the object lacks it
Property(object, key) == IF key \in DOMAIN object THEN object[key] ELSE NULL

\* the record signupVerification returns on a cross-validation mismatch
MismatchRecord(v) ==
    [verified |-> FALSE, error |-> MismatchMessage,
     details |-> [nameMatch |-> v.nameMatch, aadhaarMatch |-> v.aadhaarMatch,
                  extractedName |-> Property(v, "extractedName"),
                  extractedAadhaar |-> Property(v, "extractedAadhaar")]]

\* a signup gate that also rejects a failed liveness verdict
SignupRejectsStrict(ocrVerification, liveness) ==
    ~ocrVerification.verified \/ ~liveness.isLive

\* the only rejection test of signupVerification
SignupRejects(ocrVerification, liveness) == ~ocrVerification.verified

\* the record signupVerification returns at the end of its try block
SignupRecord(l) ==
    [verified |-> TRUE, faceEmbedding |-> l.faceEmb, documentHash |-> l.finalHash,
     salt |-> l.salt, liveness |-> l.liveness,
     ocrText |-> Substring0(l.ocrText, OcrExcerptLen),
     ocrVerification |-> l.ocrVerification, message |-> SuccessMessage]

Finish(how) ==
    /\ pc' = "done"
    /\ outcome' = how.outcome
    /\ result' = how.result

Globals == <<tfAvailable, tesseractAvailable>>

CallVerifyBorrower ==
    /\ pc = "idle"
    /\ \E face \in FaceImages, doc \in DocImages, txn \in TxnIds, thr \in Thresholds :
           args' = [mode |-> "compare", faceImage |-> face, aadhaarImage |-> doc,
                    txnId |-> txn, threshold |-> thr]
    /\ pc' = "vb_faceEmb"
    /\ outcome' = "pending"
    /\ UNCHANGED <<Globals, loc, ocrTask, timer, race, result, probe, Application>>

CallSignupVerification ==
    /\ pc = "idle"
    /\ \E face \in FaceImages, doc \in DocImages, txn \in TxnIds,
          name \in EnteredNames, id \in EnteredAadhaars :
           args' = [mode |-> "signup", faceImage |-> face, aadhaarImage |-> doc,
                    txnId |-> txn, enteredName |-> name, enteredAadhaar |-> id]
    /\ pc' = "su_faceEmb"
    /\ outcome' = "pending"
    /\ UNCHANGED <<Globals, loc, ocrTask, timer, race, result, probe, Application>>

\* the OCR step starts: performOCR is called and raced against a timer
StartOcrRace(waitAt) ==
    /\ ocrTask' = "preprocess"
    /\ timer' = "armed"
    /\ race' = "pending"
    /\ pc' = waitAt

\* verifyBorrower resumes from `await imageToEmbedding(faceImage)`
VbFaceEmbedding ==
    /\ pc = "vb_faceEmb"
    /\ \E cnn \in CnnOutcomes :
        LET r == imageToEmbedding(args.faceImage, tfAvailable, cnn)
        IN  IF r.threw
            THEN /\ Finish(Catch(DecodeErrorMessage))
                 /\ UNCHANGED loc
            ELSE /\ loc' = [loc EXCEPT !.faceEmb = r.value]
                 /\ pc' = "vb_aadhaarEmb"
                 /\ UNCHANGED <<outcome, result>>
    /\ UNCHANGED <<Globals, args, ocrTask, timer, race, probe, Application>>

\* verifyBorrower resumes from `await imageToEmbedding(aadhaarImage)`, scores,
\* hashes, and starts the OCR step
VbAadhaarEmbedding ==
    /\ pc = "vb_aadhaarEmb"
    /\ \E cnn \in CnnOutcomes, random \in Salts :
        LET r == imageToEmbedding(args.aadhaarImage, tfAvailable, cnn)
            sim == cosineSimilarity(loc.faceEmb, r.value)
            h == hashDocument(args.aadhaarImage, args.txnId, NULL, random)
        IN  IF r.threw \/ sim.threw
            THEN /\ Finish(Catch(IF r.threw THEN DecodeErrorMessage
                                            ELSE SimilarityErrorMessage))
                 /\ UNCHANGED <<loc, ocrTask, timer, race>>
            ELSE /\ loc' = [loc EXCEPT !.aadhaarEmb = r.value, !.score = sim.value,
                                       !.finalHash = h.finalHash, !.salt = h.salt]
                 /\ IF tesseractAvailable
                    THEN StartOcrRace("vb_ocr")
                    ELSE /\ pc' = "vb_liveness"
                         /\ UNCHANGED <<ocrTask, timer, race>>
                 /\ UNCHANGED <<outcome, result>>
    /\ UNCHANGED <<Globals, args, probe, Application>>

\* verifyBorrower resumes from `await detectLiveness(faceImage)` and decides
VbLiveness ==
    /\ pc = "vb_liveness"
    /\ LET l == [loc EXCEPT !.liveness = detectLiveness(args.faceImage),
                            !.livenessRan = TRUE]
           verified == FinalDecision(l.score, args.threshold, l.liveness,
                                     l.documentValid)
       IN  /\ loc' = l
           /\ Finish(Return(BorrowerRecord(verified, l, args)))
    /\ UNCHANGED <<Globals, args, ocrTask, timer, race, probe, Application>>

\* signupVerification resumes from `await imageToEmbedding(faceImage)` and hashes
SuFaceEmbedding ==
    /\ pc = "su_faceEmb"
    /\ \E cnn \in CnnOutcomes, random \in Salts :
        LET r == imageToEmbedding(args.faceImage, tfAvailable, cnn)
            h == hashDocument(args.aadhaarImage, args.txnId, NULL, random)
        IN  IF r.threw
            THEN /\ Finish(Catch(DecodeErrorMessage))
                 /\ UNCHANGED loc
            ELSE /\ loc' = [loc EXCEPT !.faceEmb = r.value,
                                       !.finalHash = h.finalHash, !.salt = h.salt]
                 /\ pc' = "su_liveness"
                 /\ UNCHANGED <<outcome, result>>
    /\ UNCHANGED <<Globals, args, ocrTask, timer, race, probe, Application>>

\* signupVerification resumes from `await detectLiveness(faceImage)` and starts
\* the OCR step
SuLiveness ==
    /\ pc = "su_liveness"
    /\ LET l == [loc EXCEPT !.liveness = detectLiveness(args.faceImage),
                            !.livenessRan = TRUE]
       IN  /\ loc' = l
           /\ IF tesseractAvailable
              THEN /\ StartOcrRace("su_ocr")
                   /\ UNCHANGED <<outcome, result>>
              ELSE /\ Finish(Return(SignupRecord(l)))
                   /\ UNCHANGED <<ocrTask, timer, race>>
    /\ UNCHANGED <<Globals, args, probe, Application>>

\* the timer callback resolves the race only while nothing has resolved it
TimerWinsNever(r) == FALSE

TimerWins(r) == r = "pending"

\* the workflow resumes from `await Promise.race([...])` with the winner's text
\* a document check that is run on empty text too
DocumentValidAlwaysChecked(ocrText) == validateDocument(ocrText, "aadhar")

\* verifyBorrower's documentValid once the OCR race has settled
DocumentValidAfterOcr(ocrText) ==
    IF ocrText # <<>> THEN validateDocument(ocrText, "aadhar") ELSE TRUE

AfterRace(text, winner) ==
    /\ race' = winner
    /\ IF args.mode = "compare"
       THEN /\ loc' = [loc EXCEPT !.ocrText = text,
                                  !.documentValid = DocumentValidAfterOcr(text)]
            /\ pc' = "vb_liveness"
            /\ UNCHANGED <<outcome, result>>
       ELSE LET v == IF text # <<>>
                     THEN verifyAadhaarDetails(text, args.enteredName,
                                               args.enteredAadhaar)
                     ELSE loc.ocrVerification
                l == [loc EXCEPT !.ocrText = text, !.ocrVerification = v,
                                 !.crossValidated = (text # <<>>)]
            IN  /\ loc' = l
                /\ IF SignupRejects(v, l.liveness)
                   THEN Finish(Return(MismatchRecord(v)))
                   ELSE Finish(Return(SignupRecord(l)))

\* the performOCR promise resolves with text
OcrResolves(text) ==
    /\ ocrTask' = "resolved"
    /\ IF race = "pending"
       THEN AfterRace(text, "ocr")
       ELSE UNCHANGED <<pc, loc, race, outcome, result>>

\* performOCR: sharp preprocessing ends (a buffer that does not decode throws,
\* is caught, and performOCR returns '')
OcrPreprocessed ==
    /\ ocrTask = "preprocess"
    /\ IF Decodable(args.aadhaarImage)
       THEN /\ ocrTask' = "recognizing"
            /\ UNCHANGED <<pc, loc, race, outcome, result>>
       ELSE OcrResolves(<<>>)
    /\ UNCHANGED <<Globals, args, timer, probe, Application>>

\* performOCR: Tesseract.recognize resolves; the text is trimmed
OcrRecognized ==
    /\ ocrTask = "recognizing"
    /\ OcrResolves(Trim(RecognizedText(args.aadhaarImage)))
    /\ UNCHANGED <<Globals, args, timer, probe, Application>>

\* a performOCR that switches OCR off for the whole module once it has failed
OcrRecognizeFailedSwitchesOff ==
    /\ ocrTask = "recognizing"
    /\ OcrResolves(<<>>)
    /\ tesseractAvailable' = FALSE
    /\ UNCHANGED <<tfAvailable, args, timer, probe, Application>>

\* performOCR: Tesseract.recognize rejects; the catch block returns ''
OcrRecognizeFailed ==
    /\ ocrTask = "recognizing"
    /\ OcrResolves(<<>>)
    /\ UNCHANGED <<Globals, args, timer, probe, Application>>

\* the setTimeout callback runs: resolve('')
TimerFired ==
    /\ timer = "armed"
    /\ timer' = "fired"
    /\ IF TimerWins(race)
       THEN AfterRace(<<>>, "timer")
       ELSE UNCHANGED <<pc, loc, race, outcome, result>>
    /\ UNCHANGED <<Globals, args, ocrTask, probe, Application>>

Next ==
    \/ CallVerifyBorrower
    \/ CallSignupVerification
    \/ VbFaceEmbedding
    \/ VbAadhaarEmbedding
    \/ VbLiveness
    \/ SuFaceEmbedding
    \/ SuLiveness
    \/ OcrPreprocessed
    \/ OcrRecognized
    \/ OcrRecognizeFailed
    \/ TimerFired

Spec == Init /\ [][Next]_vars

\* every step of the event loop that can run does run, except that nothing
\* makes Tesseract.recognize settle
Fairness ==
    /\ WF_vars(VbFaceEmbedding)
    /\ WF_vars(VbAadhaarEmbedding)
    /\ WF_vars(VbLiveness)
    /\ WF_vars(SuFaceEmbedding)
    /\ WF_vars(SuLiveness)
    /\ WF_vars(OcrPreprocessed)
    /\ WF_vars(TimerFired)

FairSpec == Spec /\ Fairness

(***************************************************************************)
(* Single applications of the pure functions, on inputs drawn from bounded *)
(* sets.                                                                   *)
(***************************************************************************)
OcrTokens ==
    { <<"6","4","7","7","7","4","5","0","9","9","4","4">>,
      <<"6","4","7","7">>,
      <<"7","4","5","0","9","9","4","4">>,
      <<"1">>,
      <<" ">>,
      <<"\n">>,
      <<"R","a","v","i"," ","K","u","m","a","r">>,
      <<"D","O","B">> }

RECURSIVE Flatten(_)
Flatten(ss) == IF ss = <<>> THEN <<>> ELSE Head(ss) \o Flatten(Tail(ss))

OcrTexts ==
    {Flatten(ts) : ts \in UNION {[1..n -> OcrTokens] : n \in 0..MaxTokens}}

ProbeNames == { <<"R","a","v","i"," ","K","u","m","a","r">>, <<"S","i","t","a"," ","D","e","v","i">>, <<"r","a","v","i">> }
ProbeAadhaars == { <<"6","4","7","7","7","4","5","0","9","9","4","4">>, <<"1","1","1","1","1","1","1","1","1","1","1","1">>, <<"6","4","7","7"," ","7","4","5","0"," ","9","9","4","4">> }

CrossValidateProbes ==
    {[fn |-> "verifyAadhaarDetails", ocrText |-> t, enteredName |-> n,
      enteredAadhaar |-> a, called |-> FALSE, out |-> NoResult] :
        t \in OcrTexts, n \in ProbeNames, a \in ProbeAadhaars}

EmbeddingProbes ==
    {[fn |-> "imageToEmbedding", imageBuffer |-> b, tf |-> tf, cnn |-> c,
      called |-> FALSE, out |-> NoResult] :
        b \in FaceImages \cup DocImages, tf \in BOOLEAN, c \in CnnOutcomes}

ExtractProbes ==
    {[fn |-> "extractAadhaarNumber", ocrText |-> t, called |-> FALSE,
      out |-> NoResult] : t \in OcrTexts}

\* images around the limits of the three liveness checks
LivenessImages ==
    {UndecodableBuffer} \cup
    {<<137, w, h, sd, 1, 0>> : w \in {10, 19, 20, 40, 41, 50},
                               h \in {10, 19, 20, 40, 41, 50},
                               sd \in {5, 9, 10, 20}}

LivenessProbes ==
    {[fn |-> "detectLiveness", imageBuffer |-> b, called |-> FALSE,
      out |-> NoResult] : b \in LivenessImages}

\* arrays of numbers: empty, of the embedding length, and one longer
Vectors ==
    UNION {[1..n -> {-1, 0, 2}] : n \in {0, EmbDim, EmbDim + 1}}

SimilarityProbes ==
    {[fn |-> "cosineSimilarity", a |-> a, b |-> b, called |-> FALSE,
      out |-> NoResult] : a \in Vectors, b \in Vectors}

HashImages ==
    {UndecodableBuffer} \cup {<<137, 30, 20, 20, f, 0>> : f \in 1..4}
ProbeTxnIds == { <<"T">>, <<"T","1">>, <<"T","2">> }
SuppliedSalts == Salts \cup {NULL, <<>>}

\* a document hashed for txnId, hashed again for it, and hashed for otherTxnId
HashProbes ==
    {[fn |-> "hashDocument", imageBuffer |-> b, txnId |-> t, otherTxnId |-> u,
      salt |-> x, called |-> FALSE, random |-> <<>>, out |-> NoResult] :
        b \in {UndecodableBuffer, <<137, 30, 20, 20, 1, 0>>},
        t \in ProbeTxnIds, u \in ProbeTxnIds, x \in SuppliedSalts}

\* an image hashed, another image hashed, and the first image hashed again
PerceptualHashProbes ==
    {[fn |-> "generatePerceptualHash", imageBuffer |-> b, otherBuffer |-> o,
      runs |-> <<>>] : b \in HashImages, o \in HashImages}

DigiLockerProbes ==
    {[fn |-> "verifyAadhaarDocument", aadhaarNumber |-> a, name |-> n,
      accessToken |-> t, docUri |-> u, isConfigured |-> c, api |-> x,
      called |-> FALSE, out |-> NoResult] :
        a \in ProbeAadhaars \cup {<<"1", "2", "3", "4", "5">>},
        n \in {<<"R","a","v","i">>}, t \in {NULL, <<"t","k">>},
        u \in {NULL, <<"u","r","i">>}, c \in BOOLEAN, x \in DigiLockerOutcomes}

FnInit ==
    /\ tfAvailable = FALSE
    /\ tesseractAvailable = FALSE
    /\ pc = "idle"
    /\ args = NoArgs
    /\ loc = NoLocals
    /\ ocrTask = "none"
    /\ timer = "none"
    /\ race = "none"
    /\ outcome = "none"
    /\ result = NoResult
    /\ probe \in CrossValidateProbes \cup EmbeddingProbes \cup ExtractProbes
                   \cup LivenessProbes \cup SimilarityProbes \cup HashProbes
                   \cup PerceptualHashProbes \cup DigiLockerProbes
    /\ ApplicationIdle

Pipeline == <<tfAvailable, tesseractAvailable, pc, args, loc, ocrTask, timer,
              race, outcome, result>>

ApplyVerifyAadhaarDetails ==
    /\ probe.fn = "verifyAadhaarDetails"
    /\ ~probe.called
    /\ probe' = [probe EXCEPT
                   !.called = TRUE,
                   !.out = verifyAadhaarDetails(probe.ocrText, probe.enteredName,
                                                probe.enteredAadhaar)]
    /\ UNCHANGED <<Pipeline, Application>>

ApplyImageToEmbedding ==
    /\ probe.fn = "imageToEmbedding"
    /\ ~probe.called
    /\ probe' = [probe EXCEPT
                   !.called = TRUE,
                   !.out = imageToEmbedding(probe.imageBuffer, probe.tf, probe.cnn)]
    /\ UNCHANGED <<Pipeline, Application>>

ApplyExtractAadhaarNumber ==
    /\ probe.fn = "extractAadhaarNumber"
    /\ ~probe.called
    /\ probe' = [probe EXCEPT !.called = TRUE,
                               !.out = extractAadhaarNumber(probe.ocrText)]
    /\ UNCHANGED <<Pipeline, Application>>

ApplyDetectLiveness ==
    /\ probe.fn = "detectLiveness"
    /\ ~probe.called
    /\ probe' = [probe EXCEPT !.called = TRUE,
                               !.out = detectLiveness(probe.imageBuffer)]
    /\ UNCHANGED <<Pipeline, Application>>

ApplyCosineSimilarity ==
    /\ probe.fn = "cosineSimilarity"
    /\ ~probe.called
    /\ probe' = [probe EXCEPT !.called = TRUE,
                               !.out = cosineSimilarity(probe.a, probe.b)]
    /\ UNCHANGED <<Pipeline, Application>>

\* three calls of hashDocument, each with its own draw of crypto.randomBytes
ApplyHashDocument ==
    /\ probe.fn = "hashDocument"
    /\ ~probe.called
    /\ \E r1 \in Salts, r2 \in Salts, r3 \in Salts :
           probe' = [probe EXCEPT
               !.called = TRUE,
               !.random = <<r1, r2, r3>>,
               !.out = [first |-> hashDocument(probe.imageBuffer, probe.txnId,
                                               probe.salt, r1),
                        again |-> hashDocument(probe.imageBuffer, probe.txnId,
                                               probe.salt, r2),
                        other |-> hashDocument(probe.imageBuffer, probe.otherTxnId,
                                               probe.salt, r3)]]
    /\ UNCHANGED <<Pipeline, Application>>

\* calls of an extractor whose embedding array outlives the call: every call
\* pushes its values after those of the calls before it
ApplyGeneratePerceptualHashSharedArray ==
    /\ probe.fn = "generatePerceptualHash"
    /\ Len(probe.runs) < 3
    /\ LET buf == IF Len(probe.runs) = 1 THEN probe.otherBuffer
                                         ELSE probe.imageBuffer
           earlier == SelectSeq(probe.runs, LAMBDA r : ~r.threw)
           kept == IF earlier = <<>> THEN <<>> ELSE earlier[Len(earlier)].value
           run == generatePerceptualHash(buf)
       IN  probe' = [probe EXCEPT !.runs =
                        Append(@, IF run.threw THEN run
                                  ELSE [run EXCEPT !.value = kept \o @])]
    /\ UNCHANGED <<Pipeline, Application>>

\* one call of generatePerceptualHash; the second call is on the other image
ApplyGeneratePerceptualHash ==
    /\ probe.fn = "generatePerceptualHash"
    /\ Len(probe.runs) < 3
    /\ LET buf == IF Len(probe.runs) = 1 THEN probe.otherBuffer
                                         ELSE probe.imageBuffer
       IN  probe' = [probe EXCEPT !.runs = Append(@, generatePerceptualHash(buf))]
    /\ UNCHANGED <<Pipeline, Application>>

ApplyVerifyAadhaarDocument ==
    /\ probe.fn = "verifyAadhaarDocument"
    /\ ~probe.called
    /\ probe' = [probe EXCEPT
                   !.called = TRUE,
                   !.out = verifyAadhaarDocument(probe.aadhaarNumber, probe.name,
                               probe.accessToken, probe.docUri,
                               probe.isConfigured, probe.api)]
    /\ UNCHANGED <<Pipeline, Application>>

FnNext ==
    \/ ApplyVerifyAadhaarDetails
    \/ ApplyImageToEmbedding
    \/ ApplyExtractAadhaarNumber
    \/ ApplyDetectLiveness
    \/ ApplyCosineSimilarity
    \/ ApplyHashDocument
    \/ ApplyGeneratePerceptualHash
    \/ ApplyVerifyAadhaarDocument

FnSpec == FnInit /\ [][FnNext]_vars

(***************************************************************************)
(* POST /login-with-face.  One action is one resumption of the handler.    *)
(***************************************************************************)
\* req.file is undefined
NoFile == <<>>

\* score < pct / 100, as the code's floating-point comparison decides it
ScoreBelow(score, pct) == ~IsNaN(score) /\ ~ScoreAtLeast(score, pct)

\* the rejection test of the handler: score < 0.65
LoginRejects(score) == ScoreBelow(score, LoginThresholdPct)

\* embeddings a user record can hold: none, an empty array, what signup
\* stored for some face image, and an array of another length
StoredEmbeddings ==
    {NULL, <<>>, [i \in 1..(EmbDim + 1) |-> 1]}
        \cup CnnEmbeddings
        \cup {PerceptualHashOf(RawGreyPixels(b)) : b \in HashImages \ {UndecodableBuffer}}

LoginIds == {"", "U1", "U2"}
LoginPasswords == {"", "secret", "guess"}
LoginFaces == {NoFile} \cup HashImages

LoginInit ==
    /\ tfAvailable \in BOOLEAN
    /\ tesseractAvailable = FALSE
    /\ pc = "idle"
    /\ args = NoArgs
    /\ loc = NoLocals
    /\ ocrTask = "none"
    /\ timer = "none"
    /\ race = "none"
    /\ outcome = "none"
    /\ result = NoResult
    /\ probe = NoProbe
    /\ users \in {[u \in {"U1"} |-> [password |-> "secret", faceEmbedding |-> e]] :
                      e \in StoredEmbeddings}
    /\ otpStore = <<>>
    /\ transactions = <<>>
    /\ notifications = <<>>
    /\ req = NoRequest
    /\ fsm = NoLoan

Respond(status, body) ==
    req' = [req EXCEPT !.at = "responded", !.status = status, !.response = body]

\* the handler starts: the body and the file are checked, User.findOne is called
LoginRequest ==
    /\ req = NoRequest
    /\ \E id \in LoginIds, pw \in LoginPasswords, face \in LoginFaces :
        LET r == [route |-> "login-with-face", uniqueId |-> id, password |-> pw,
                  faceImage |-> face, at |-> "findOne", user |-> NULL,
                  score |-> [dot |-> 0, nn |-> 0], status |-> 0,
                  response |-> NoResult]
        IN  IF id = "" \/ pw = "" \/ face = NoFile
            THEN req' = [r EXCEPT !.at = "responded", !.status = 400,
                                  !.response = [success |-> FALSE]]
            ELSE req' = r
    /\ UNCHANGED <<Pipeline, probe, users, otpStore, transactions, notifications, fsm>>

\* User.findOne resolves: credentials and the stored embedding are checked,
\* extractEmbedding is called
LoginUserFound ==
    /\ req.route = "login-with-face"
    /\ req.at = "findOne"
    /\ IF req.uniqueId \notin DOMAIN users
          \/ users[req.uniqueId].password # req.password
       THEN Respond(401, [success |-> FALSE])
       ELSE LET stored == users[req.uniqueId].faceEmbedding
            IN  IF stored = NULL \/ Len(stored) = 0
                THEN Respond(400, [success |-> FALSE])
                ELSE req' = [req EXCEPT !.at = "extractEmbedding",
                                        !.user = req.uniqueId]
    /\ UNCHANGED <<Pipeline, probe, users, otpStore, transactions, notifications, fsm>>

\* User.findOne rejects: the catch block answers
LoginFindFailed ==
    /\ req.route = "login-with-face"
    /\ req.at = "findOne"
    /\ Respond(500, [success |-> FALSE])
    /\ UNCHANGED <<Pipeline, probe, users, otpStore, transactions, notifications, fsm>>

\* extractEmbedding settles: the score is computed and tested, a token signed
LoginEmbeddingExtracted ==
    /\ req.route = "login-with-face"
    /\ req.at = "extractEmbedding"
    /\ \E cnn \in CnnOutcomes :
        LET r == imageToEmbedding(req.faceImage, tfAvailable, cnn)
            sim == IF r.threw THEN r
                   ELSE cosineSimilarity(r.value, users[req.user].faceEmbedding)
        IN  IF sim.threw
            THEN Respond(500, [success |-> FALSE])
            ELSE IF LoginRejects(sim.value)
            THEN req' = [req EXCEPT !.at = "responded", !.status = 401,
                                    !.score = sim.value,
                                    !.response = [success |-> FALSE]]
            ELSE req' = [req EXCEPT !.at = "responded", !.status = 200,
                                    !.score = sim.value,
                                    !.response = [success |-> TRUE, verified |-> TRUE,
                                                  token |-> req.user]]
    /\ UNCHANGED <<Pipeline, probe, users, otpStore, transactions, notifications, fsm>>

LoginNext ==
    \/ LoginRequest
    \/ LoginUserFound
    \/ LoginFindFailed
    \/ LoginEmbeddingExtracted

LoginSpec == LoginInit /\ [][LoginNext]_vars

(***************************************************************************)
(* POST /verify-face: the handler around one verifyBorrower invocation.    *)
(***************************************************************************)
\* the User collection before the request: one registered, unverified user
VerifyFaceUsers ==
    [u \in {"a@x"} |->
        [faceVerified |-> FALSE, kycVerified |-> FALSE, faceEmbedding |-> <<>>,
         aadharHash |-> NULL, aadharSalt |-> NULL, lastFaceVerification |-> "never"]]

VerifyFaceInit ==
    /\ tfAvailable \in BOOLEAN
    /\ tesseractAvailable \in BOOLEAN
    /\ pc = "idle"
    /\ args = NoArgs
    /\ loc = NoLocals
    /\ ocrTask = "none"
    /\ timer = "none"
    /\ race = "none"
    /\ outcome = "none"
    /\ result = NoResult
    /\ probe = NoProbe
    /\ users = VerifyFaceUsers
    /\ otpStore = <<>>
    /\ transactions = <<>>
    /\ notifications = <<>>
    /\ req = NoRequest
    /\ fsm = NoLoan

\* the handler starts: the files and the email are checked, verifyBorrower is
\* called with threshold 0.6
VerifyFaceRequest ==
    /\ req = NoRequest
    /\ pc = "idle"
    /\ \E face \in FaceImages \cup {NoFile}, doc \in DocImages \cup {NoFile},
          email \in {"", "a@x", "b@x"}, txn \in TxnIds :
        LET r == [route |-> "verify-face", email |-> email, at |-> "verifyBorrower",
                  sms |-> <<>>, status |-> 0, response |-> NoResult]
        IN  IF face = NoFile \/ doc = NoFile \/ email = ""
            THEN /\ req' = [r EXCEPT !.at = "responded", !.status = 400,
                                     !.response = [success |-> FALSE]]
                 /\ UNCHANGED <<pc, args, outcome>>
            ELSE /\ req' = r
                 /\ args' = [mode |-> "compare", faceImage |-> face,
                             aadhaarImage |-> doc, txnId |-> txn,
                             threshold |-> OnboardingThresholdPct]
                 /\ pc' = "vb_faceEmb"
                 /\ outcome' = "pending"
    /\ UNCHANGED <<Globals, loc, ocrTask, timer, race, result, probe, users,
                   otpStore, transactions, notifications, fsm>>

\* a handler that goes on unless the result carries an error
VerifyFaceVerifiedUnlessError ==
    /\ req.route = "verify-face"
    /\ req.at = "verifyBorrower"
    /\ pc = "done"
    /\ IF outcome = "thrown"
       THEN Respond(500, [success |-> FALSE])
       ELSE IF "error" \in DOMAIN result
       THEN Respond(400, [success |-> FALSE])
       ELSE req' = [req EXCEPT !.at = "findOne"]
    /\ UNCHANGED <<Pipeline, probe, users, otpStore, transactions, notifications, fsm>>

\* verifyBorrower has settled: a result that is not verified is answered with
\* 400, otherwise User.findOne is called
VerifyFaceVerified ==
    /\ req.route = "verify-face"
    /\ req.at = "verifyBorrower"
    /\ pc = "done"
    /\ IF outcome = "thrown"
       THEN Respond(500, [success |-> FALSE])
       ELSE IF ~result.verified
       THEN Respond(400, [success |-> FALSE])
       ELSE req' = [req EXCEPT !.at = "findOne"]
    /\ UNCHANGED <<Pipeline, probe, users, otpStore, transactions, notifications, fsm>>

\* User.findOne resolves: without a user 404, otherwise the fields are set on
\* the document and user.save is called
VerifyFaceUserFound ==
    /\ req.route = "verify-face"
    /\ req.at = "findOne"
    /\ IF req.email \notin DOMAIN users
       THEN Respond(404, [success |-> FALSE])
       ELSE req' = [req EXCEPT !.at = "save"]
    /\ UNCHANGED <<Pipeline, probe, users, otpStore, transactions, notifications, fsm>>

\* User.findOne or user.save rejects: the catch block answers
VerifyFaceDbFailed ==
    /\ req.route = "verify-face"
    /\ req.at \in {"findOne", "save"}
    /\ Respond(500, [success |-> FALSE])
    /\ UNCHANGED <<Pipeline, probe, users, otpStore, transactions, notifications, fsm>>

\* user.save resolves: the record is stored, the OTP is put in otpStore and
\* sendOTP is called
VerifyFaceSaved ==
    /\ req.route = "verify-face"
    /\ req.at = "save"
    /\ users' = [users EXCEPT ![req.email] =
                    [faceVerified |-> TRUE, kycVerified |-> TRUE,
                     faceEmbedding |-> result.faceEmbedding,
                     aadharHash |-> result.documentHash,
                     aadharSalt |-> result.salt,
                     lastFaceVerification |-> "now"]]
    /\ \E otp \in {"100000", "999999"} :
           /\ otpStore' = [e \in DOMAIN otpStore \cup {req.email} |->
                              IF e = req.email THEN otp ELSE otpStore[e]]
           /\ req' = [req EXCEPT !.at = "sendOTP", !.sms = Append(@, otp)]
    /\ UNCHANGED <<Pipeline, probe, transactions, notifications, fsm>>

\* sendOTP resolves (it catches its own errors): the handler answers 200
VerifyFaceOtpSent ==
    /\ req.route = "verify-face"
    /\ req.at = "sendOTP"
    /\ Respond(200, [success |-> TRUE, verified |-> TRUE])
    /\ UNCHANGED <<Pipeline, probe, users, otpStore, transactions, notifications, fsm>>

VerifyFaceNext ==
    \/ VerifyFaceRequest
    \/ VbFaceEmbedding
    \/ VbAadhaarEmbedding
    \/ VbLiveness
    \/ OcrPreprocessed
    \/ OcrRecognized
    \/ OcrRecognizeFailed
    \/ TimerFired
    \/ VerifyFaceVerified
    \/ VerifyFaceUserFound
    \/ VerifyFaceDbFailed
    \/ VerifyFaceSaved
    \/ VerifyFaceOtpSent

VerifyFaceSpec == VerifyFaceInit /\ [][VerifyFaceNext]_vars

(***************************************************************************)
(* LoanFSM.  The instance keeps, next to the fields of the class, the call *)
(* made last and the state it was made in.                                 *)
(***************************************************************************)
LoanInit ==
    /\ tfAvailable = FALSE
    /\ tesseractAvailable = FALSE
    /\ pc = "idle"
    /\ args = NoArgs
    /\ loc = NoLocals
    /\ ocrTask = "none"
    /\ timer = "none"
    /\ race = "none"
    /\ outcome = "none"
    /\ result = NoResult
    /\ probe = NoProbe
    /\ ApplicationIdle

\* the instance after a method call: the fields are those of next, and the
\* call is noted
Called(op, amount, next) ==
    [amount |-> fsm.amount, remaining |-> next.remaining, state |-> next.state,
     last |-> [op |-> op, amount |-> amount, state |-> fsm.state,
               remaining |-> fsm.remaining]]

constructor ==
    /\ fsm = NoLoan
    /\ \E amount \in 0..MaxAmount :
           fsm' = [amount |-> amount, remaining |-> amount, state |-> "REQUESTED",
                   last |-> [op |-> "constructor", amount |-> amount,
                             state |-> "none", remaining |-> 0]]
    /\ UNCHANGED <<Pipeline, probe, users, otpStore, transactions, notifications, req>>

approve ==
    /\ fsm # NoLoan
    /\ fsm' = Called("approve", 0,
                     IF fsm.state = "REQUESTED"
                     THEN [fsm EXCEPT !.state = "APPROVED"] ELSE fsm)
    /\ UNCHANGED <<Pipeline, probe, users, otpStore, transactions, notifications, req>>

disburse ==
    /\ fsm # NoLoan
    /\ fsm' = Called("disburse", 0,
                     IF fsm.state = "APPROVED"
                     THEN [fsm EXCEPT !.state = "ACTIVE"] ELSE fsm)
    /\ UNCHANGED <<Pipeline, probe, users, otpStore, transactions, notifications, req>>

\* a repay that also accepts a partially repaid loan
repayPartiallyRepaid(amount) ==
    /\ fsm # NoLoan
    /\ fsm' = Called("repay", amount,
                     IF fsm.state \notin {"ACTIVE", "PARTIALLY_REPAID"} THEN fsm
                     ELSE IF fsm.remaining - amount <= 0
                     THEN [fsm EXCEPT !.state = "REPAID", !.remaining = 0]
                     ELSE [fsm EXCEPT !.state = "PARTIALLY_REPAID",
                                      !.remaining = fsm.remaining - amount])
    /\ UNCHANGED <<Pipeline, probe, users, otpStore, transactions, notifications, req>>

repay(amount) ==
    /\ fsm # NoLoan
    /\ fsm' = Called("repay", amount,
                     IF fsm.state # "ACTIVE" THEN fsm
                     ELSE IF fsm.remaining - amount <= 0
                     THEN [fsm EXCEPT !.state = "REPAID", !.remaining = 0]
                     ELSE [fsm EXCEPT !.state = "PARTIALLY_REPAID",
                                      !.remaining = fsm.remaining - amount])
    /\ UNCHANGED <<Pipeline, probe, users, otpStore, transactions, notifications, req>>

gracePeriod ==
    /\ fsm # NoLoan
    /\ fsm' = Called("gracePeriod", 0,
                     IF fsm.state = "ACTIVE"
                     THEN [fsm EXCEPT !.state = "GRACE"] ELSE fsm)
    /\ UNCHANGED <<Pipeline, probe, users, otpStore, transactions, notifications, req>>

default ==
    /\ fsm # NoLoan
    /\ fsm' = Called("default", 0,
                     IF fsm.state \in {"ACTIVE", "PARTIALLY_REPAID", "GRACE"}
                     THEN [fsm EXCEPT !.state = "DEFAULTED"] ELSE fsm)
    /\ UNCHANGED <<Pipeline, probe, users, otpStore, transactions, notifications, req>>

LoanNext ==
    \/ constructor
    \/ approve
    \/ disburse
    \/ \E amount \in -1..MaxAmount : repay(amount)
    \/ gracePeriod
    \/ default

LoanSpec == LoanInit /\ [][LoanNext]_vars

(***************************************************************************)
(* SyncController.uploadOfflineOperations.  req holds one handler per      *)
(* upload; one action is one resumption of a handler after a database      *)
(* call.  Times are in minutes; the server clock reads 1.                  *)
(***************************************************************************)
Uploads == {1, 2}

\* the offline operations a client can queue
SyncOperations ==
    {[operationId |-> "pay", type |-> "payment_initiation", timestamp |-> 1,
      data |-> [loanId |-> "L1", amount |-> 5]],
     [operationId |-> "read", type |-> "notification_read", timestamp |-> 1,
      data |-> [notificationId |-> "n1", readAt |-> 1]],
     [operationId |-> "reread", type |-> "notification_read", timestamp |-> 1,
      data |-> [notificationId |-> "n2", readAt |-> 1]],
     [operationId |-> "lost", type |-> "notification_read", timestamp |-> 1,
      data |-> [notificationId |-> "n0", readAt |-> 1]],
     [operationId |-> "profile", type |-> "profile_update", timestamp |-> 1,
      data |-> [phone |-> "1"]],
     [operationId |-> "other", type |-> "export", timestamp |-> 1,
      data |-> [phone |-> "1"]]}

SyncInit ==
    /\ tfAvailable = FALSE
    /\ tesseractAvailable = FALSE
    /\ pc = "idle"
    /\ args = NoArgs
    /\ loc = NoLocals
    /\ ocrTask = "none"
    /\ timer = "none"
    /\ race = "none"
    /\ outcome = "none"
    /\ result = NoResult
    /\ probe = NoProbe
    /\ users = <<>>
    /\ otpStore = <<>>
    /\ transactions = <<>>
    /\ notifications = [n \in {"n1", "n2"} |-> [read |-> n = "n2", readAt |-> 0]]
    /\ req = [u \in Uploads |-> [at |-> "idle"]]
    /\ fsm = NoLoan

\* where _processOfflineOperation first waits for the database
FirstAwait(operation) ==
    CASE operation.type = "payment_initiation" -> "Transaction.findOne"
      [] operation.type = "notification_read" -> "Notification.findOne"
      [] OTHER -> "settled"

\* the message of the error _processNotificationRead throws for a
\* notification the server already holds as read
ConflictDetected ==
    <<"C", "o", "n", "f", "l", "i", "c", "t", " ", "d", "e", "t", "e", "c",
      "t", "e", "d", ":", " ", "n", "o", "t", "i", "f", "i", "c", "a", "t",
      "i", "o", "n", " ", "r", "e", "a", "d">>

\* the messages _processOfflineOperation can throw otherwise: a missing
\* notification, an unknown type, and what a rejected database call carries
OtherErrors ==
    [notFound |-> <<"N", "o", "t", "i", "f", "i", "c", "a", "t", "i", "o", "n", " ", "n",
                  "o", "t", " ", "f", "o", "u", "n", "d">>,
     unknownType |-> <<"U", "n", "k", "n", "o", "w", "n", " ", "o", "p", "e", "r", "a", "t",
                     "i", "o", "n", " ", "t", "y", "p", "e", ":", " ", "e", "x", "p", "o",
                     "r", "t">>,
     database |-> {<<"t", "i", "m", "e", "o", "u", "t">>,
                   <<"w", "r", "i", "t", "e", " ", "c", "o", "n", "f", "l", "i", "c", "t">>}]

\* the handler after results.operations.push(entry) and the counter's ++: the
\* loop goes on to the next operation, or ends and the response is sent
Pushed(h, counter, entry) ==
    LET done == h.i + 1
        r == [h.results EXCEPT ![counter] = @ + 1,
                               !.operations = Append(@, entry)]
    IN  IF done = Len(h.operations)
        THEN [h EXCEPT !.i = done, !.results = r, !.at = "responded", !.status = 200]
        ELSE [h EXCEPT !.i = done, !.results = r,
                       !.at = FirstAwait(h.operations[done + 1])]

\* _processOfflineOperation caught an error: a message that includes
\* 'conflict' is a conflict and the operation succeeds, any other error is
\* thrown on to the loop's catch, which counts a failure
OperationThrew(h, message) ==
    IF Includes(message, <<"c", "o", "n", "f", "l", "i", "c", "t">>)
    THEN Pushed(h, "conflicts",
                [clientOperationId |-> h.operations[h.i + 1].operationId,
                 success |-> TRUE, conflict |-> TRUE])
    ELSE Pushed(h, "failed",
                [clientOperationId |-> h.operations[h.i + 1].operationId,
                 success |-> FALSE, error |-> message])

\* the handler starts: the batch is checked and the first operation started
SyncUpload(u) ==
    /\ req[u].at = "idle"
    /\ \E userId \in {"U1"},
          operations \in UNION {[1..n -> SyncOperations] : n \in 0..2} :
        req' = [req EXCEPT ![u] =
            IF Len(operations) = 0
            THEN [at |-> "responded", status |-> 400, userId |-> userId,
                  operations |-> operations, i |-> 0,
                  results |-> [processed |-> 0, failed |-> 0, conflicts |-> 0,
                               operations |-> <<>>]]
            ELSE [at |-> FirstAwait(operations[1]), status |-> 0, userId |-> userId,
                  operations |-> operations, i |-> 0,
                  results |-> [processed |-> 0, failed |-> 0, conflicts |-> 0,
                               operations |-> <<>>]]]
    /\ UNCHANGED <<Pipeline, probe, users, otpStore, transactions, notifications, fsm>>

\* an operation that needs no database call settles: a known type is
\* processed, an unknown type throws
SyncSettled(u) ==
    /\ req[u].at = "settled"
    /\ LET operation == req[u].operations[req[u].i + 1]
       IN  req' = [req EXCEPT ![u] =
               IF operation.type \in {"profile_update", "loan_application"}
               THEN Pushed(req[u], "processed",
                           [clientOperationId |-> operation.operationId,
                            success |-> TRUE, conflict |-> FALSE,
                            status |-> "processed"])
               ELSE OperationThrew(req[u], OtherErrors.unknownType)]
    /\ UNCHANGED <<Pipeline, probe, users, otpStore, transactions, notifications, fsm>>

\* Transaction.findOne resolves: a pending transaction of the same loan,
\* borrower and amount, created within the window, is reported; without one
\* a transaction is built and transaction.save is called
SyncPaymentFound(u) ==
    /\ req[u].at = "Transaction.findOne"
    /\ LET operation == req[u].operations[req[u].i + 1]
           existing == {k \in 1..Len(transactions) :
                           /\ transactions[k].loanId = operation.data.loanId
                           /\ transactions[k].borrowerId = req[u].userId
                           /\ transactions[k].amount = operation.data.amount
                           /\ transactions[k].status = "pending"
                           /\ transactions[k].createdAt
                                  >= operation.timestamp - DuplicateWindow}
       IN  req' = [req EXCEPT ![u] =
               IF existing # {}
               THEN Pushed(req[u], "processed",
                           [clientOperationId |-> operation.operationId,
                            success |-> TRUE, conflict |-> FALSE,
                            status |-> "already_exists"])
               ELSE [req[u] EXCEPT !.at = "transaction.save"]]
    /\ UNCHANGED <<Pipeline, probe, users, otpStore, transactions, notifications, fsm>>

\* transaction.save resolves: the transaction is stored
SyncPaymentSaved(u) ==
    /\ req[u].at = "transaction.save"
    /\ LET operation == req[u].operations[req[u].i + 1]
       IN  /\ transactions' = Append(transactions,
                  [loanId |-> operation.data.loanId, borrowerId |-> req[u].userId,
                   amount |-> operation.data.amount, status |-> "pending",
                   createdAt |-> 1])
           /\ req' = [req EXCEPT ![u] =
                  Pushed(req[u], "processed",
                         [clientOperationId |-> operation.operationId,
                          success |-> TRUE, conflict |-> FALSE,
                          status |-> "created"])]
    /\ UNCHANGED <<Pipeline, probe, users, otpStore, notifications, fsm>>

\* Notification.findOne resolves: a missing notification throws, one read
\* before readAt throws ConflictDetected, otherwise markAsRead is called
SyncNotificationFound(u) ==
    /\ req[u].at = "Notification.findOne"
    /\ LET operation == req[u].operations[req[u].i + 1]
           id == operation.data.notificationId
       IN  req' = [req EXCEPT ![u] =
               IF id \notin DOMAIN notifications
               THEN OperationThrew(req[u], OtherErrors.notFound)
               ELSE IF notifications[id].read
                       /\ notifications[id].readAt < operation.data.readAt
               THEN OperationThrew(req[u], ConflictDetected)
               ELSE [req[u] EXCEPT !.at = "markAsRead"]]
    /\ UNCHANGED <<Pipeline, probe, users, otpStore, transactions, notifications, fsm>>

\* notification.markAsRead resolves
SyncNotificationMarked(u) ==
    /\ req[u].at = "markAsRead"
    /\ LET operation == req[u].operations[req[u].i + 1]
       IN  /\ notifications' =
                  [notifications EXCEPT ![operation.data.notificationId] =
                      [read |-> TRUE, readAt |-> 1]]
           /\ req' = [req EXCEPT ![u] =
                  Pushed(req[u], "processed",
                         [clientOperationId |-> operation.operationId,
                          success |-> TRUE, conflict |-> FALSE,
                          status |-> "read"])]
    /\ UNCHANGED <<Pipeline, probe, users, otpStore, transactions, fsm>>

\* a loop that ends at the first operation that fails
SyncDatabaseFailedEndsLoop(u) ==
    /\ req[u].at \in {"Transaction.findOne", "transaction.save",
                       "Notification.findOne", "markAsRead"}
    /\ \E message \in OtherErrors.database :
        req' = [req EXCEPT ![u] =
            [OperationThrew(req[u], message) EXCEPT !.at = "responded", !.status = 200]]
    /\ UNCHANGED <<Pipeline, probe, users, otpStore, transactions, notifications, fsm>>

\* a database call of the operation rejects: the loop's catch counts it
SyncDatabaseFailed(u) ==
    /\ req[u].at \in {"Transaction.findOne", "transaction.save",
                       "Notification.findOne", "markAsRead"}
    /\ \E message \in OtherErrors.database :
        req' = [req EXCEPT ![u] = OperationThrew(req[u], message)]
    /\ UNCHANGED <<Pipeline, probe, users, otpStore, transactions, notifications, fsm>>

SyncNext ==
    \E u \in Uploads :
        \/ SyncUpload(u)
        \/ SyncSettled(u)
        \/ SyncPaymentFound(u)
        \/ SyncPaymentSaved(u)
        \/ SyncNotificationFound(u)
        \/ SyncNotificationMarked(u)
        \/ SyncDatabaseFailed(u)

SyncSpec == SyncInit /\ [][SyncNext]_vars

(***************************************************************************)
(* Properties.                                                             *)
(***************************************************************************)
Returned == pc = "done" /\ outcome = "returned"
\* the outer catch block produced the record
Caught == Returned /\ DOMAIN result = {"verified", "error"}
Compared == args.mode = "compare" /\ Returned /\ ~Caught
Enrolled == args.mode = "signup" /\ Returned /\ ~Caught

SmallFace ==
    /\ Decodable(args.faceImage)
    /\ \/ Metadata(args.faceImage).width < 200
       \/ Metadata(args.faceImage).height < 200

\* C1: in comparison mode, when no stage throws, the returned decision has
\* verified = true exactly when score >= threshold, the liveness verdict is
\* live, and the document is valid.
C1_DecisionIsConjunction ==
    Compared =>
        /\ result.score = loc.score
        /\ result.threshold = args.threshold
        /\ result.liveness = loc.liveness
        /\ result.documentValid = loc.documentValid
        /\ result.verified =
               (/\ ScoreAtLeast(result.score, result.threshold)
                /\ result.liveness.isLive
                /\ result.documentValid)

C1_Witness ==
    /\ Compared
    /\ result.verified
    /\ result.ocrText # <<>>
    /\ result.liveness.reason = "Checks passed"

\* C2: in comparison mode a decodable face image with width or height below
\* 200px makes the liveness stage fail with the resolution reason, and the
\* returned decision is unverified whatever the score, threshold and OCR
\* outcome are.
C2_SmallFaceRejected ==
    (args.mode = "compare" /\ SmallFace) =>
        /\ loc.livenessRan =>
               /\ ~loc.liveness.isLive
               /\ loc.liveness.reason = "Resolution too low"
        /\ Returned => ~result.verified
        /\ Compared => /\ ~result.liveness.isLive
                       /\ result.liveness.reason = "Resolution too low"

C2_Witness ==
    /\ Compared
    /\ SmallFace
    /\ ScoreAtLeast(result.score, result.threshold)
    /\ result.documentValid
    /\ ~result.verified

\* C3: a rejection returned by either workflow carries a stage identifier
\* and a diagnostic payload: failureStage = "biometric" with score, liveness
\* verdict and documentValid for a comparison rejected on score, liveness or
\* document; a stage identifier with the match details for an enrollment
\* rejected by cross-validation.
C3_RejectionNamesStage ==
    ((Compared \/ Enrolled) /\ ~result.verified) =>
        /\ Compared => {"score", "liveness", "documentValid"} \subseteq DOMAIN result
        /\ Enrolled => "details" \in DOMAIN result
        /\ "failureStage" \in DOMAIN result
        /\ Compared => result.failureStage = "biometric"

\* C4: in enrollment mode, when no stage throws, the decision is unverified
\* exactly when cross-validation ran and reported a mismatch; a failed
\* liveness verdict or an empty OCR text never makes it unverified.
C4_OnlyMismatchRejects ==
    Enrolled =>
        /\ ~result.verified <=> (loc.crossValidated /\ ~loc.ocrVerification.verified)
        /\ loc.ocrText = <<>> => result.verified
        /\ result.verified => result.liveness = detectLiveness(args.faceImage)

C4_Witness ==
    /\ Enrolled
    /\ result.verified
    /\ ~result.liveness.isLive
    /\ loc.crossValidated

\* the name comparison the claims speak of: either string contains the other,
\* ignoring case
NamesAgree(extracted, entered) ==
    \/ Includes(ToLowerCase(entered), ToLowerCase(extracted))
    \/ Includes(ToLowerCase(extracted), ToLowerCase(entered))

CrossValidated == probe.fn = "verifyAadhaarDetails" /\ probe.called

\* C5: verifyAadhaarDetails returns verified = false only if an id was
\* extracted and differs from the declared id, or a name was extracted and
\* does not match the declared name; when neither can be extracted from the
\* text it returns verified = true.
C5_FalseOnlyOnExtractedMismatch ==
    CrossValidated =>
        LET xid == extractAadhaarNumber(probe.ocrText)
            xname == extractNameFromOCR(probe.ocrText)
        IN  /\ ~probe.out.verified =>
                   \/ xid # NULL /\ xid # StripSpaces(probe.enteredAadhaar)
                   \/ xname # NULL /\ ~NamesAgree(xname, probe.enteredName)
            /\ (xid = NULL /\ xname = NULL) => probe.out.verified

C5_Witness ==
    /\ CrossValidated
    /\ Len(probe.ocrText) >= MinOcrLength
    /\ extractAadhaarNumber(probe.ocrText) = NULL
    /\ extractNameFromOCR(probe.ocrText) = NULL
    /\ probe.out.verified

\* C6: when an identity number can be extracted from the OCR text, idMatch is
\* true exactly when it equals the declared id with all whitespace removed,
\* and an extracted id that does not match makes the enrollment decision
\* unverified.
C6_IdMatchDecides ==
    (args.mode = "signup" /\ loc.crossValidated) =>
        LET xid == extractAadhaarNumber(loc.ocrText)
        IN  xid # NULL =>
                /\ loc.ocrVerification.aadhaarMatch
                       <=> (xid = StripSpaces(args.enteredAadhaar))
                /\ ~loc.ocrVerification.aadhaarMatch
                       => (Returned /\ ~result.verified)

C6_Witness ==
    /\ Enrolled
    /\ loc.crossValidated
    /\ extractAadhaarNumber(loc.ocrText) # NULL
    /\ ~loc.ocrVerification.aadhaarMatch
    /\ loc.ocrVerification.nameMatch
    /\ ~result.verified

C6_WitnessMatch ==
    /\ Enrolled
    /\ loc.crossValidated
    /\ loc.ocrVerification.aadhaarMatch
    /\ result.verified

\* C7: on every business-rule rejection and every degraded-capability
\* condition both workflows complete by returning a record with a boolean
\* verified field; they never throw.
C7_NeverThrows ==
    /\ outcome # "thrown"
    /\ pc = "done" =>
           /\ outcome = "returned"
           /\ "verified" \in DOMAIN result
           /\ result.verified \in BOOLEAN

C7_Witness ==
    /\ Returned
    /\ ~Caught
    /\ ~result.verified
    /\ ~tesseractAvailable
    /\ tfAvailable

\* C8 as stated: an undecodable input image makes the workflow propagate an
\* image-decode error to its caller instead of returning a record.
C8_DecodeErrorPropagates ==
    (pc = "done" /\ (~Decodable(args.faceImage) \/ ~Decodable(args.aadhaarImage)))
        => outcome = "thrown"

\* C8, amended: an undecodable image whose embedding is extracted (either
\* image in comparison mode, the face image in enrollment mode) makes the
\* workflow return {verified: false, error: <the decoder's message>}; nothing
\* is thrown.  An undecodable document image in enrollment mode is absorbed
\* by the OCR stage and no decode error is reported.
C8_DecodeErrorReturned ==
    pc = "done" =>
        IF \/ ~Decodable(args.faceImage)
           \/ (args.mode = "compare" /\ ~Decodable(args.aadhaarImage))
        THEN /\ outcome = "returned"
             /\ result = [verified |-> FALSE, error |-> DecodeErrorMessage]
        ELSE /\ outcome = "returned"
             /\ ~Caught

C8_Witness ==
    /\ Caught
    /\ result.error = DecodeErrorMessage
    /\ ~Decodable(args.faceImage)

C8_WitnessDocument ==
    /\ Enrolled
    /\ ~Decodable(args.aadhaarImage)
    /\ result.verified

EmbeddingExtracted == probe.fn = "imageToEmbedding" /\ probe.called

\* C9: imageToEmbedding returns the perceptual-hash embedding whenever the
\* trained backend is unavailable or the primary path throws for a decodable
\* image; it fails exactly when the bytes cannot be decoded.
C9_FallbackUnlessUndecodable ==
    EmbeddingExtracted =>
        /\ probe.out.threw <=> ~Decodable(probe.imageBuffer)
        /\ (Decodable(probe.imageBuffer) /\ (~probe.tf \/ probe.cnn.threw)) =>
               probe.out.value = PerceptualHashOf(RawGreyPixels(probe.imageBuffer))

C9_Witness ==
    /\ EmbeddingExtracted
    /\ probe.tf
    /\ probe.cnn.threw
    /\ Decodable(probe.imageBuffer)
    /\ ~probe.out.threw

\* C10: the OCR recognition is raced against a timer: whichever of them
\* settles first, and also when recognition never settles, the workflow
\* eventually returns a decision; when the timer wins, the OCR text the
\* decision uses is empty and the invocation is not failed.
C10_RaceAlwaysSettles ==
    /\ (race = "pending") ~> Returned
    /\ [](race = "timer" =>
            /\ loc.ocrText = <<>>
            /\ outcome # "thrown"
            /\ Returned => (~Caught /\ result.ocrText = <<>>))

C10_Witness ==
    /\ Returned
    /\ race = "timer"
    /\ ocrTask = "recognizing"
    /\ ~Caught

\* C11: whenever OCR yields empty text (engine not loaded, recognition error,
\* timeout) the validation after it is skipped, not failed: a comparison has
\* documentValid true, and an enrollment counts cross-validation as passed
\* and is not rejected.
C11_EmptyTextSkipsValidation ==
    /\ (Compared /\ loc.ocrText = <<>>) => result.documentValid
    /\ (Enrolled /\ loc.ocrText = <<>>) =>
           /\ loc.ocrVerification.verified
           /\ ~loc.crossValidated
           /\ result.verified

\* a comparison whose OCR was cut off by the timer
C11_Witness ==
    /\ Compared
    /\ tesseractAvailable
    /\ race = "timer"
    /\ loc.ocrText = <<>>
    /\ result.documentValid

\* an enrollment whose recognition failed on a decodable document
C11_WitnessEnrollment ==
    /\ Enrolled
    /\ tesseractAvailable
    /\ race = "ocr"
    /\ Decodable(args.aadhaarImage)
    /\ loc.ocrText = <<>>
    /\ result.verified

\* the text, without its whitespace, has AadhaarDigits digits in a row
HasIdentityDigits(text) ==
    LET clean == SelectSeq(text, LAMBDA c : ~IsSpace(c))
    IN  \E i \in 1..Len(clean) :
            /\ i + AadhaarDigits - 1 <= Len(clean)
            /\ \A j \in 0..(AadhaarDigits - 1) : IsDigit(clean[i + j])

\* C12 as stated: in comparison mode documentValid is true if and only if
\* the whitespace-stripped OCR text matches the 12-digit pattern or no
\* candidate identity number could be extracted from the text at all.
C12_ValidIffPatternOrNoCandidate ==
    Compared =>
        (result.documentValid
            <=> (HasIdentityDigits(loc.ocrText)
                    \/ extractAadhaarNumber(loc.ocrText) = NULL))

\* C12 (amended): in comparison mode documentValid is true if and only if
\* the whitespace-stripped OCR text contains 12 digits in a row or the OCR
\* text is empty; a non-empty text without such digits is invalid.
C12_ValidIffPatternOrEmpty ==
    Compared =>
        (result.documentValid
            <=> (HasIdentityDigits(loc.ocrText) \/ loc.ocrText = <<>>))

\* a comparison that read text with no identity number in it
C12_Witness ==
    /\ Compared
    /\ loc.ocrText # <<>>
    /\ extractAadhaarNumber(loc.ocrText) = NULL
    /\ ~result.documentValid

\* a comparison that read an identity number printed in groups
C12_WitnessValid ==
    /\ Compared
    /\ \E i \in 1..Len(loc.ocrText) : IsSpace(loc.ocrText[i])
    /\ HasIdentityDigits(loc.ocrText)
    /\ result.documentValid

Extracted == probe.fn = "extractAadhaarNumber" /\ probe.called

\* where the digit runs of exactly n digits start in s: the digits before and
\* after such a run, if any, are not digits
ExactRuns(s, n) ==
    {i \in 1..Len(s) :
        /\ i + n - 1 <= Len(s)
        /\ \A j \in i..(i + n - 1) : IsDigit(s[j])
        /\ i > 1 => ~IsDigit(s[i - 1])
        /\ i + n <= Len(s) => ~IsDigit(s[i + n])}

\* C13: the candidate identity number extracted from OCR text is the first
\* run of exactly 12 digits of the whitespace-stripped text; a longer or
\* shorter digit run is no candidate, and where no run of exactly 12 digits
\* exists no identity number is extracted.
C13_FirstRunOfExactlyTwelve ==
    Extracted =>
        LET clean == StripSpaces(probe.ocrText)
            runs == ExactRuns(clean, AadhaarDigits)
        IN  IF runs = {}
            THEN probe.out = NULL
            ELSE \E i \in runs :
                    /\ \A k \in runs : i <= k
                    /\ probe.out = SubSeq(clean, i, i + AadhaarDigits - 1)

LivenessChecked == probe.fn = "detectLiveness" /\ probe.called

\* the three checks, read off the image itself: pixels, and the standard
\* deviation of its channels
TooSmall(buf) == buf[2] * 10 < MinResolution \/ buf[3] * 10 < MinResolution
TooFlat(buf) == buf[4] < MinVariance
TooSkewed(buf) == 10 * buf[2] < 5 * buf[3] \/ 10 * buf[2] > 20 * buf[3]

\* C14: the detector checks resolution, then detail, then aspect ratio, and
\* the first check that fails alone gives the verdict: a decodable image with
\* a side under 200 px is not live with confidence 0.3 and the resolution
\* reason whatever its detail and shape, and an image that passes all three
\* is live with confidence 0.85.
C14_FirstFailingCheckDecides ==
    (LivenessChecked /\ Decodable(probe.imageBuffer)) =>
        LET buf == probe.imageBuffer
        IN  probe.out =
              IF TooSmall(buf)
              THEN [isLive |-> FALSE, confidence |-> 30, reason |-> "Resolution too low"]
              ELSE IF TooFlat(buf)
              THEN [isLive |-> FALSE, confidence |-> 40, reason |-> "Insufficient detail"]
              ELSE IF TooSkewed(buf)
              THEN [isLive |-> FALSE, confidence |-> 50, reason |-> "Unusual aspect ratio"]
              ELSE [isLive |-> TRUE, confidence |-> 85, reason |-> "Checks passed"]

\* a small, flat and skewed image is rejected for its resolution
C14_Witness ==
    /\ LivenessChecked
    /\ Decodable(probe.imageBuffer)
    /\ TooSmall(probe.imageBuffer)
    /\ TooFlat(probe.imageBuffer)
    /\ TooSkewed(probe.imageBuffer)
    /\ probe.out.reason = "Resolution too low"

\* an image on the limits of all three checks passes
C14_WitnessLive ==
    /\ LivenessChecked
    /\ Decodable(probe.imageBuffer)
    /\ probe.imageBuffer[2] * 10 = MinResolution
    /\ probe.imageBuffer[3] = 2 * probe.imageBuffer[2]
    /\ probe.imageBuffer[4] = MinVariance
    /\ probe.out.isLive
    /\ probe.out.confidence = 85

\* C15: when decoding or analysing the image throws inside the detector, it
\* returns the fail-open verdict (live, confidence 0.5, unable to verify), so
\* that verdict never turns a comparison decision to unverified: the decision
\* is then the score test and the document check alone.
C15_FailOpenOnException ==
    (LivenessChecked /\ ~Decodable(probe.imageBuffer)) =>
        /\ probe.out = [isLive |-> TRUE, confidence |-> 50,
                        reason |-> "Unable to verify"]
        /\ \A a \in Vectors, b \in Vectors, t \in Thresholds, dv \in BOOLEAN :
               (Len(a) = EmbDim /\ Len(b) = EmbDim) =>
                   LET score == cosineSimilarity(a, b).value
                   IN  FinalDecision(score, t, probe.out, dv)
                           <=> (ScoreAtLeast(score, t) /\ dv)

C15_Witness ==
    /\ LivenessChecked
    /\ ~Decodable(probe.imageBuffer)
    /\ probe.out.isLive
    /\ \E a \in Vectors, t \in Thresholds :
           /\ Len(a) = EmbDim
           /\ FinalDecision(cosineSimilarity(a, a).value, t, probe.out, TRUE)

SimilarityScored == probe.fn = "cosineSimilarity" /\ probe.called

\* C16: the similarity scorer fails with a shape-mismatch error whenever the
\* two vectors differ in length or either of them is empty, both being empty
\* included, and returns a number otherwise.
C16_ThrowsOnMismatchOrEmpty ==
    SimilarityScored =>
        (probe.out.threw
            <=> (Len(probe.a) # Len(probe.b) \/ probe.a = <<>> \/ probe.b = <<>>))

\* C17: for two non-empty vectors of one length the score of (a, b) is the
\* score of (b, a), and scoring changes neither vector nor any stored state.
C17_SymmetricAndPure ==
    [][(probe.fn = "cosineSimilarity" /\ ~probe.called /\ probe'.called
            /\ probe.a # <<>> /\ Len(probe.a) = Len(probe.b)) =>
           /\ ~probe'.out.threw
           /\ probe'.out = cosineSimilarity(probe.b, probe.a)
           /\ probe'.a = probe.a
           /\ probe'.b = probe.b
           /\ UNCHANGED Pipeline]_vars

\* two vectors of different norms, neither a multiple of the other, scored
C17_Witness ==
    /\ SimilarityScored
    /\ Len(probe.a) = EmbDim
    /\ Len(probe.b) = EmbDim
    /\ ~probe.out.threw
    /\ Dot(probe.a, probe.a) # Dot(probe.b, probe.b)
    /\ probe.out.value.dot # 0
    /\ ~IsNaN(probe.out.value)

Hashed == probe.fn = "hashDocument" /\ probe.called
\* a salt was passed: the parameter is neither left out (null) nor ''
SaltSupplied == probe.salt # NULL /\ probe.salt # <<>>

C18_WitnessFresh ==
    /\ Hashed
    /\ probe.salt = NULL
    /\ probe.out.first.salt # probe.out.again.salt

\* C19: for a fixed document and salt, two different transaction ids give
\* two different digests (SHA-256 taken as collision-free).
C19_TransactionBound ==
    (Hashed /\ probe.out.first.salt = probe.out.other.salt
            /\ probe.txnId # probe.otherTxnId) =>
        probe.out.first.finalHash # probe.out.other.finalHash

\* one transaction id is the beginning of the other
C19_Witness ==
    /\ Hashed
    /\ SaltSupplied
    /\ Len(probe.txnId) < Len(probe.otherTxnId)
    /\ SubSeq(probe.otherTxnId, 1, Len(probe.txnId)) = probe.txnId
    /\ probe.out.first.finalHash # probe.out.other.finalHash

\* the image was hashed, then the other image, then the image again
HashedTwice == probe.fn = "generatePerceptualHash" /\ Len(probe.runs) = 3

FaceExtractionPending == args.mode = "compare" /\ pc = "vb_faceEmb"
\* imageToEmbedding(aadhaarImage) has been called
DocumentExtractionStarted ==
    /\ args.mode = "compare"
    /\ \/ pc \in {"vb_aadhaarEmb", "vb_ocr", "vb_liveness"}
       \/ pc = "done" /\ loc.faceEmb # NULL

TokenIssued ==
    /\ req.route = "login-with-face"
    /\ req.at = "responded"
    /\ "token" \in DOMAIN req.response

\* C23: login by face applies the stricter threshold: a token is issued only
\* if the credentials match a user, that user has a non-empty stored
\* embedding, and the similarity of the login embedding and the stored one
\* is at least 0.65.
C23_TokenOnlyAboveThreshold ==
    TokenIssued =>
        /\ req.uniqueId \in DOMAIN users
        /\ users[req.uniqueId].password = req.password
        /\ users[req.uniqueId].faceEmbedding # NULL
        /\ users[req.uniqueId].faceEmbedding # <<>>
        /\ ScoreAtLeast(req.score, LoginThresholdPct)

DigiLockerAsked == probe.fn = "verifyAadhaarDocument" /\ probe.called
\* DigiLocker is not configured, no token was given, or one of its calls failed
DigiLockerUnusable ==
    \/ ~probe.isConfigured
    \/ probe.accessToken = NULL
    \/ probe.api.doc = "fails"
    \/ probe.docUri = NULL /\ probe.api.issued # "found"

\* C24: verifyAadhaarDocument never throws: when DigiLocker is not
\* configured, no access token is given, or any DigiLocker call fails, it
\* returns the result of the simulated verification; the record it returns
\* always has a verified field.
C24_FallsBackToSimulation ==
    DigiLockerAsked =>
        /\ ~probe.out.threw
        /\ "verified" \in DOMAIN probe.out.value
        /\ probe.out.value.verified \in BOOLEAN
        /\ DigiLockerUnusable =>
               probe.out.value =
                   simulateDigiLockerVerification(probe.aadhaarNumber, probe.name)

\* a failed DigiLocker call, with configuration and token in place
C24_Witness ==
    /\ DigiLockerAsked
    /\ probe.isConfigured
    /\ probe.accessToken # NULL
    /\ probe.api.doc = "fails"
    /\ ~probe.out.threw
    /\ "simulatedMode" \in DOMAIN probe.out.value

\* C25: in simulation mode the DigiLocker verification validates the Aadhaar
\* number with the Verhoeff algorithm: a 12-digit number whose checksum is
\* invalid is not reported as verified.
C25_SimulationChecksVerhoeff ==
    (DigiLockerAsked /\ "simulatedMode" \in DOMAIN probe.out.value) =>
        (probe.out.value.verified => validateAadhaarNumber(probe.aadhaarNumber))

\* the user record, the OTP store or the SMS log differ from before the request
VerifyFaceWrote ==
    \/ users # VerifyFaceUsers
    \/ DOMAIN otpStore # {}
    \/ req.sms # <<>>

\* C26: in the /verify-face handler the user record is modified and an OTP
\* is stored and sent only after verifyBorrower returned verified = true; on
\* every rejected or errored verification the user record and the OTP store
\* are left as they were.
C26_WritesOnlyAfterVerified ==
    req.route = "verify-face" =>
        /\ VerifyFaceWrote => (Returned /\ result.verified)
        /\ (Returned /\ ~result.verified) => ~VerifyFaceWrote
        /\ (req.at = "responded" /\ req.status # 200) =>
               (users = VerifyFaceUsers /\ DOMAIN otpStore = {})

\* the request of a registered user was verified, stored and answered
C26_Witness ==
    /\ req.route = "verify-face"
    /\ req.at = "responded"
    /\ req.status = 200
    /\ result.verified
    /\ users[req.email].faceVerified
    /\ users[req.email].faceEmbedding = result.faceEmbedding
    /\ req.email \in DOMAIN otpStore
    /\ req.sms = <<otpStore[req.email]>>

\* a rejected verification was answered with nothing written
C26_WitnessRejected ==
    /\ req.route = "verify-face"
    /\ req.at = "responded"
    /\ req.status = 400
    /\ Compared
    /\ ~result.verified
    /\ users = VerifyFaceUsers

\* the edges the loan may take, and the states in which a method acts
LoanEdges ==
    {<<"REQUESTED", "APPROVED">>, <<"APPROVED", "ACTIVE">>,
     <<"ACTIVE", "PARTIALLY_REPAID">>, <<"ACTIVE", "REPAID">>,
     <<"ACTIVE", "GRACE">>, <<"ACTIVE", "DEFAULTED">>,
     <<"PARTIALLY_REPAID", "DEFAULTED">>, <<"GRACE", "DEFAULTED">>}
LoanEnabled(op, state) ==
    CASE op = "approve" -> state = "REQUESTED"
      [] op = "disburse" -> state = "APPROVED"
      [] op = "repay" -> state = "ACTIVE"
      [] op = "gracePeriod" -> state = "ACTIVE"
      [] op = "default" -> state \in {"ACTIVE", "PARTIALLY_REPAID", "GRACE"}
      [] OTHER -> FALSE
LoanCalled == fsm # NoLoan /\ fsm.last.op # "constructor"

\* C27: every LoanFSM call changes the state along one of the edges
\* REQUESTED->APPROVED->ACTIVE, ACTIVE->{PARTIALLY_REPAID, REPAID, GRACE,
\* DEFAULTED}, PARTIALLY_REPAID->DEFAULTED, GRACE->DEFAULTED or not at all;
\* REPAID and DEFAULTED are left by no call; a call made in a state where it
\* is not enabled changes neither state nor remaining; a REPAID loan has
\* remaining 0.
C27_LoanEdges ==
    LoanCalled =>
        /\ fsm.state = fsm.last.state \/ <<fsm.last.state, fsm.state>> \in LoanEdges
        /\ fsm.last.state \in {"REPAID", "DEFAULTED"} => fsm.state = fsm.last.state
        /\ ~LoanEnabled(fsm.last.op, fsm.last.state) =>
               (fsm.state = fsm.last.state /\ fsm.remaining = fsm.last.remaining)
        /\ fsm.state = "REPAID" => fsm.remaining = 0

\* repay was called on a partially repaid loan and changed nothing
C27_Witness ==
    /\ LoanCalled
    /\ fsm.last.op = "repay"
    /\ fsm.last.state = "PARTIALLY_REPAID"
    /\ fsm.last.amount >= fsm.last.remaining
    /\ fsm.state = "PARTIALLY_REPAID"
    /\ fsm.remaining = fsm.last.remaining

C27_WitnessRepaid ==
    /\ LoanCalled
    /\ fsm.last.op = "repay"
    /\ fsm.last.amount > fsm.last.remaining
    /\ fsm.state = "REPAID"
    /\ fsm.remaining = 0

\* C28: a partially repaid loan can still be repaid in full: a repay call
\* made in state PARTIALLY_REPAID with at least the remaining balance brings
\* the loan to REPAID with remaining 0.
C28_PartialCanBeRepaid ==
    (LoanCalled /\ fsm.last.op = "repay" /\ fsm.last.state = "PARTIALLY_REPAID"
        /\ fsm.last.amount >= fsm.last.remaining) =>
        (fsm.state = "REPAID" /\ fsm.remaining = 0)

Answered(u) == req[u].at = "responded" /\ req[u].status = 200

\* C29: for every non-empty batch accepted by uploadOfflineOperations each
\* operation is processed exactly once and in input order, a failed
\* operation does not stop the later ones, the response has exactly one
\* result entry per operation, and processed + failed + conflicts is the
\* number of operations.
C29_OneResultPerOperation ==
    \A u \in Uploads :
        req[u].at # "idle" =>
            LET h == req[u]
                entries == h.results.operations
            IN  /\ Len(entries) = h.i
                /\ h.results.processed + h.results.failed + h.results.conflicts = h.i
                /\ \A k \in 1..Len(entries) :
                       entries[k].clientOperationId = h.operations[k].operationId
                /\ Answered(u) => h.i = Len(h.operations)
                /\ (h.at = "responded" /\ h.operations # <<>>) => Answered(u)

\* a batch whose first operation failed and whose second was processed
C29_Witness ==
    \E u \in Uploads :
        /\ Answered(u)
        /\ Len(req[u].operations) = 2
        /\ ~req[u].results.operations[1].success
        /\ req[u].results.operations[2].success
        /\ req[u].results.failed = 1
        /\ req[u].results.processed = 1

\* the pending transactions of one payment: same loan, borrower and amount
PendingPayments(loanId, borrowerId, amount) ==
    {k \in 1..Len(transactions) :
        /\ transactions[k].loanId = loanId
        /\ transactions[k].borrowerId = borrowerId
        /\ transactions[k].amount = amount
        /\ transactions[k].status = "pending"}

\* C30: replaying an offline payment_initiation is idempotent: when the same
\* payment is uploaded more than once, also by two uploads whose processing
\* interleaves, at most one pending Transaction is created and the later
\* uploads report 'already_exists'.
C30_PaymentReplayIdempotent ==
    Cardinality(PendingPayments("L1", "U1", 5)) <= 1

====
